---------------------------- MODULE Spec2Model ----------------------------
(***************************************************************************)
(* A model of the paper-parse cleanup scripts: the record file, the        *)
(* passes that rewrite it (extract_substance, final_extract, cleanup_nav,  *)
(* polish_files, aggressive_clean, clean_external_links, clean_github_ui)  *)
(* and the text functions they are built from.                             *)
(*                                                                         *)
(* Text is a sequence of one-character strings.  The backtick, which a     *)
(* TLA+ string cannot hold, is the element BT.                             *)
(***************************************************************************)
EXTENDS Integers, Sequences, FiniteSets, TLC

VARIABLES
  file,      \* the content of the record file, a sequence of characters
  present,   \* TRUE while the record file exists in the directory
  fname,     \* the record's file name
  orig,      \* the content the record had before the first pass
  prev,      \* the content the record had before the last pass
  last,      \* the last pass that processed the record, "none" before any
  outcome,   \* what the last pass did: "written", "deleted", "skipped"
  measured,  \* the length the last pass compared with its threshold
  budget,    \* the number of passes still to be run
  ext,       \* the ContentExtractor the parser delivers its events to
  opened,    \* the elements of the page that are open, outermost first; the
             \* parser keeps of them only the script or style it is in
  nested,    \* TRUE while every end tag closed the innermost open element
  event,     \* the last event the parser delivered
  fed,       \* the number of events delivered so far
  dir,       \* the files of the directory a sweep goes through, by name
  script,    \* the sweep script that is running
  todo,      \* the files the sweep's loop has still to take, in its order
  done,      \* the files the loop has taken, each with what came of it
  phase,     \* "running", "reported" after the final report, "aborted"
  pages,     \* what get_text gives for each page of the PDF, in page order
  pageno,    \* the number of pages the converter's loop has gone through
  doctext,   \* the text the converter has put together so far
  outfile,   \* the output file of the converter, once written
  conv,      \* "reading", then "converted" or "failed"
  link,      \* the link main takes: its URL, what fetching it gives, and
             \* whether the output directory takes a new file
  saved,     \* the records written to the output directory, name and text
  counted,   \* how main counts the link: "successful", "failed", "skipped",
             \* or "raised" when an exception ends main before it counts
  links,     \* the list LINKS of main, each link with what fetching it gives
  visits,    \* the links main's loop has taken, in its order, each with how
             \* it was counted, "raised" for the one an exception ended main at
  successful, \* main's counter of the links scrape_link returned True for
  failed,    \* main's counter of the links scrape_link returned False for
  skipped,   \* main's counter of the links it did not scrape
  outdir,    \* the output directory of main: the text of each file, by name
  total      \* the Total of main's summary, -1 until it is printed

recordVars == <<file, present, fname, orig, prev, last, outcome, measured, budget>>
parserVars == <<ext, opened, nested, event, fed>>
sweepVars == <<dir, script, todo, done, phase>>
pdfVars == <<pages, pageno, doctext, outfile, conv>>
linkVars == <<link, saved, counted>>
scrapeVars == <<links, visits, successful, failed, skipped, outdir, total>>
vars == <<recordVars, parserVars, sweepVars, pdfVars, linkVars, scrapeVars>>

---------------------------------------------------------------------------
(* Characters and strings *)

BT == "bt"
Chars(s) == [i \in 1..Len(s) |-> SubSeq(s, i, i)]

\* what decoding with errors='replace' puts for a byte that is not UTF-8
Replacement == "rc"

\* the white space outside ASCII, each character written U+ and its code
UnicodeSpaces ==
  { "U+11", "U+28", "U+29", "U+30", "U+31", "U+133", "U+160", "U+5760", "U+8192", "U+8193",
    "U+8194", "U+8195", "U+8196", "U+8197", "U+8198", "U+8199", "U+8200", "U+8201", "U+8202", "U+8232", "U+8233", "U+8239", "U+8287", "U+12288" }

\* what str.strip() and the regex class \s take for white space
WS == {" ", "\t", "\n", "\r", "\f"} \cup UnicodeSpaces

LowerCase == Chars("abcdefghijklmnopqrstuvwxyz")
UpperCase == Chars("ABCDEFGHIJKLMNOPQRSTUVWXYZ")
AsciiLetters == {LowerCase[i] : i \in 1..26} \cup {UpperCase[i] : i \in 1..26}

\* str.upper() of a text whose letters are of ASCII: the names of heading_tags
\* and the digits of base 16
UpperChar(c) ==
  IF \E i \in 1..26 : LowerCase[i] = c
  THEN UpperCase[CHOOSE i \in 1..26 : LowerCase[i] = c]
  ELSE c
Upper(s) == [i \in 1..Len(s) |-> UpperChar(s[i])]

\* s[i:] of Python, with i counted from 1
From(s, i) == SubSeq(s, i, Len(s))

\* str.startswith
StartsWith(s, p) == Len(p) <= Len(s) /\ SubSeq(s, 1, Len(p)) = p

\* str.endswith
EndsWith(s, p) == Len(p) <= Len(s) /\ SubSeq(s, Len(s) - Len(p) + 1, Len(s)) = p

\* the member of a set of one value
The(S) == CHOOSE v \in S : TRUE

\* `sub in s`
Contains(s, sub) ==
  \E i \in 1..(Len(s) - Len(sub) + 1) : SubSeq(s, i, i + Len(sub) - 1) = sub

\* a character class of a pattern: the characters of cs, or with neg all others,
\* taken lo to hi times (hi = -1: any number), as many as can be or, lazy, as few
Cls(cs, neg, lo, hi, lazy) ==
  [k |-> "c", cs |-> cs, neg |-> neg, lo |-> lo, hi |-> hi, lazy |-> lazy]

ClsHas(it, c) == IF it.neg THEN c \notin it.cs ELSE c \in it.cs

\* the least index in lo..hi whose character is not of the class, or hi + 1
FirstMiss(it, s, lo, hi) ==
  CHOOSE j \in lo..(hi + 1) :
    /\ j = hi + 1 \/ ~ClsHas(it, s[j])
    /\ \A q \in lo..(j - 1) : ClsHas(it, s[q])

\* the greatest index in lo..hi whose character is not of the class, or lo - 1
LastMiss(it, s, lo, hi) ==
  CHOOSE j \in (lo - 1)..hi :
    /\ j = lo - 1 \/ ~ClsHas(it, s[j])
    /\ \A q \in (j + 1)..hi : ClsHas(it, s[q])

WsCls == Cls(WS, FALSE, 0, -1, FALSE)

\* str.lstrip()
LStrip(s) == From(s, FirstMiss(WsCls, s, 1, Len(s)))

\* str.rstrip()
RStrip(s) == SubSeq(s, 1, LastMiss(WsCls, s, 1, Len(s)))

\* str.strip()
Strip(s) == LStrip(RStrip(s))

\* str.rstrip(c) for one character c
RStripChar(s, c) ==
  SubSeq(s, 1, LastMiss(Cls({c}, FALSE, 0, -1, FALSE), s, 1, Len(s)))

\* str.split('\n'): the texts between the line ends
SplitLines(s) ==
  LET nl == {i \in 1..Len(s) : s[i] = "\n"}
      m == Cardinality(nl)
      pos == [k \in 0..(m + 1) |->
                IF k = 0 THEN 0
                ELSE IF k = m + 1 THEN Len(s) + 1
                ELSE CHOOSE p \in nl : Cardinality({q \in nl : q <= p}) = k]
  IN [k \in 1..(m + 1) |-> SubSeq(s, pos[k - 1] + 1, pos[k] - 1)]

\* f.readlines(), each line without its line end: a final line end opens no
\* further line
ReadLines(s) ==
  LET l == SplitLines(s)
  IN IF l[Len(l)] = <<>> THEN SubSeq(l, 1, Len(l) - 1) ELSE l

RECURSIVE JoinRange(_, _, _, _)
JoinRange(parts, sep, lo, hi) ==
  IF lo > hi THEN <<>>
  ELSE IF lo = hi THEN parts[lo]
       ELSE LET mid == (lo + hi) \div 2
            IN JoinRange(parts, sep, lo, mid) \o sep
                 \o JoinRange(parts, sep, mid + 1, hi)

\* sep.join(parts)
Join(parts, sep) == JoinRange(parts, sep, 1, Len(parts))

\* len(s.split()): the places where a word starts
NumWords(s) ==
  Cardinality({i \in 1..Len(s) : s[i] \notin WS /\ (i = 1 \/ s[i - 1] \in WS)})

\* c * n
Repeat(c, n) == [i \in 1..n |-> c]

---------------------------------------------------------------------------
(* The case of characters: str.lower() and the letters re.IGNORECASE      *)
(* takes for the same, as Python 3.11 has them with Unicode 14.           *)

RECURSIVE Str(_, _)
\* the first n characters of s as one string
Str(s, n) == IF n = 0 THEN "" ELSE Str(s, n - 1) \o s[n]

\* the characters a table has after key in text, up to the next |, or none
Listed(text, key) ==
  LET hits == {i \in 1..(Len(text) - Len(key) + 1) :
                 SubSeq(text, i, i + Len(key) - 1) = key}
      from == (CHOOSE i \in hits : TRUE) + Len(key)
      to == CHOOSE i \in from..Len(text) :
              /\ SubSeq(text, i, i) = "|"
              /\ \A q \in from..(i - 1) : SubSeq(text, q, q) # "|"
  IN IF hits = {} THEN <<>> ELSE Chars(SubSeq(text, from, to - 1))

\* the characters from U+0080 on that have a lower case other than
\* themselves, each written |code=character| with its lower-case character;
\* for U+03A3 the one it has when it does not end a word
lower_table ==
  "|192=U+224|193=U+225|194=U+226|195=U+227|196=U+228|197=U+229|198=U+230|199=U+231|200=U+232"
    \o "|201=U+233|202=U+234|203=U+235|204=U+236|205=U+237|206=U+238|207=U+239|208=U+240|209=U+241"
    \o "|210=U+242|211=U+243|212=U+244|213=U+245|214=U+246|216=U+248|217=U+249|218=U+250|219=U+251"
    \o "|220=U+252|221=U+253|222=U+254|256=U+257|258=U+259|260=U+261|262=U+263|264=U+265|266=U+267"
    \o "|268=U+269|270=U+271|272=U+273|274=U+275|276=U+277|278=U+279|280=U+281|282=U+283|284=U+285"
    \o "|286=U+287|288=U+289|290=U+291|292=U+293|294=U+295|296=U+297|298=U+299|300=U+301|302=U+303|304=i"
    \o "|306=U+307|308=U+309|310=U+311|313=U+314|315=U+316|317=U+318|319=U+320|321=U+322|323=U+324"
    \o "|325=U+326|327=U+328|330=U+331|332=U+333|334=U+335|336=U+337|338=U+339|340=U+341|342=U+343"
    \o "|344=U+345|346=U+347|348=U+349|350=U+351|352=U+353|354=U+355|356=U+357|358=U+359|360=U+361"
    \o "|362=U+363|364=U+365|366=U+367|368=U+369|370=U+371|372=U+373|374=U+375|376=U+255|377=U+378"
    \o "|379=U+380|381=U+382|385=U+595|386=U+387|388=U+389|390=U+596|391=U+392|393=U+598|394=U+599"
    \o "|395=U+396|398=U+477|399=U+601|400=U+603|401=U+402|403=U+608|404=U+611|406=U+617|407=U+616"
    \o "|408=U+409|412=U+623|413=U+626|415=U+629|416=U+417|418=U+419|420=U+421|422=U+640|423=U+424"
    \o "|425=U+643|428=U+429|430=U+648|431=U+432|433=U+650|434=U+651|435=U+436|437=U+438|439=U+658"
    \o "|440=U+441|444=U+445|452=U+454|453=U+454|455=U+457|456=U+457|458=U+460|459=U+460|461=U+462"
    \o "|463=U+464|465=U+466|467=U+468|469=U+470|471=U+472|473=U+474|475=U+476|478=U+479|480=U+481"
    \o "|482=U+483|484=U+485|486=U+487|488=U+489|490=U+491|492=U+493|494=U+495|497=U+499|498=U+499"
    \o "|500=U+501|502=U+405|503=U+447|504=U+505|506=U+507|508=U+509|510=U+511|512=U+513|514=U+515"
    \o "|516=U+517|518=U+519|520=U+521|522=U+523|524=U+525|526=U+527|528=U+529|530=U+531|532=U+533"
    \o "|534=U+535|536=U+537|538=U+539|540=U+541|542=U+543|544=U+414|546=U+547|548=U+549|550=U+551"
    \o "|552=U+553|554=U+555|556=U+557|558=U+559|560=U+561|562=U+563|570=U+11365|571=U+572|573=U+410"
    \o "|574=U+11366|577=U+578|579=U+384|580=U+649|581=U+652|582=U+583|584=U+585|586=U+587|588=U+589"
    \o "|590=U+591|880=U+881|882=U+883|886=U+887|895=U+1011|902=U+940|904=U+941|905=U+942|906=U+943"
    \o "|908=U+972|910=U+973|911=U+974|913=U+945|914=U+946|915=U+947|916=U+948|917=U+949|918=U+950"
    \o "|919=U+951|920=U+952|921=U+953|922=U+954|923=U+955|924=U+956|925=U+957|926=U+958|927=U+959"
    \o "|928=U+960|929=U+961|931=U+963|932=U+964|933=U+965|934=U+966|935=U+967|936=U+968|937=U+969"
    \o "|938=U+970|939=U+971|975=U+983|984=U+985|986=U+987|988=U+989|990=U+991|992=U+993|994=U+995"
    \o "|996=U+997|998=U+999|1000=U+1001|1002=U+1003|1004=U+1005|1006=U+1007|1012=U+952|1015=U+1016"
    \o "|1017=U+1010|1018=U+1019|1021=U+891|1022=U+892|1023=U+893|1024=U+1104|1025=U+1105|1026=U+1106"
    \o "|1027=U+1107|1028=U+1108|1029=U+1109|1030=U+1110|1031=U+1111|1032=U+1112|1033=U+1113|1034=U+1114"
    \o "|1035=U+1115|1036=U+1116|1037=U+1117|1038=U+1118|1039=U+1119|1040=U+1072|1041=U+1073|1042=U+1074"
    \o "|1043=U+1075|1044=U+1076|1045=U+1077|1046=U+1078|1047=U+1079|1048=U+1080|1049=U+1081|1050=U+1082"
    \o "|1051=U+1083|1052=U+1084|1053=U+1085|1054=U+1086|1055=U+1087|1056=U+1088|1057=U+1089|1058=U+1090"
    \o "|1059=U+1091|1060=U+1092|1061=U+1093|1062=U+1094|1063=U+1095|1064=U+1096|1065=U+1097|1066=U+1098"
    \o "|1067=U+1099|1068=U+1100|1069=U+1101|1070=U+1102|1071=U+1103|1120=U+1121|1122=U+1123|1124=U+1125"
    \o "|1126=U+1127|1128=U+1129|1130=U+1131|1132=U+1133|1134=U+1135|1136=U+1137|1138=U+1139|1140=U+1141"
    \o "|1142=U+1143|1144=U+1145|1146=U+1147|1148=U+1149|1150=U+1151|1152=U+1153|1162=U+1163|1164=U+1165"
    \o "|1166=U+1167|1168=U+1169|1170=U+1171|1172=U+1173|1174=U+1175|1176=U+1177|1178=U+1179|1180=U+1181"
    \o "|1182=U+1183|1184=U+1185|1186=U+1187|1188=U+1189|1190=U+1191|1192=U+1193|1194=U+1195|1196=U+1197"
    \o "|1198=U+1199|1200=U+1201|1202=U+1203|1204=U+1205|1206=U+1207|1208=U+1209|1210=U+1211|1212=U+1213"
    \o "|1214=U+1215|1216=U+1231|1217=U+1218|1219=U+1220|1221=U+1222|1223=U+1224|1225=U+1226|1227=U+1228"
    \o "|1229=U+1230|1232=U+1233|1234=U+1235|1236=U+1237|1238=U+1239|1240=U+1241|1242=U+1243|1244=U+1245"
    \o "|1246=U+1247|1248=U+1249|1250=U+1251|1252=U+1253|1254=U+1255|1256=U+1257|1258=U+1259|1260=U+1261"
    \o "|1262=U+1263|1264=U+1265|1266=U+1267|1268=U+1269|1270=U+1271|1272=U+1273|1274=U+1275|1276=U+1277"
    \o "|1278=U+1279|1280=U+1281|1282=U+1283|1284=U+1285|1286=U+1287|1288=U+1289|1290=U+1291|1292=U+1293"
    \o "|1294=U+1295|1296=U+1297|1298=U+1299|1300=U+1301|1302=U+1303|1304=U+1305|1306=U+1307|1308=U+1309"
    \o "|1310=U+1311|1312=U+1313|1314=U+1315|1316=U+1317|1318=U+1319|1320=U+1321|1322=U+1323|1324=U+1325"
    \o "|1326=U+1327|1329=U+1377|1330=U+1378|1331=U+1379|1332=U+1380|1333=U+1381|1334=U+1382|1335=U+1383"
    \o "|1336=U+1384|1337=U+1385|1338=U+1386|1339=U+1387|1340=U+1388|1341=U+1389|1342=U+1390|1343=U+1391"
    \o "|1344=U+1392|1345=U+1393|1346=U+1394|1347=U+1395|1348=U+1396|1349=U+1397|1350=U+1398|1351=U+1399"
    \o "|1352=U+1400|1353=U+1401|1354=U+1402|1355=U+1403|1356=U+1404|1357=U+1405|1358=U+1406|1359=U+1407"
    \o "|1360=U+1408|1361=U+1409|1362=U+1410|1363=U+1411|1364=U+1412|1365=U+1413|1366=U+1414"
    \o "|4256=U+11520|4257=U+11521|4258=U+11522|4259=U+11523|4260=U+11524|4261=U+11525|4262=U+11526"
    \o "|4263=U+11527|4264=U+11528|4265=U+11529|4266=U+11530|4267=U+11531|4268=U+11532|4269=U+11533"
    \o "|4270=U+11534|4271=U+11535|4272=U+11536|4273=U+11537|4274=U+11538|4275=U+11539|4276=U+11540"
    \o "|4277=U+11541|4278=U+11542|4279=U+11543|4280=U+11544|4281=U+11545|4282=U+11546|4283=U+11547"
    \o "|4284=U+11548|4285=U+11549|4286=U+11550|4287=U+11551|4288=U+11552|4289=U+11553|4290=U+11554"
    \o "|4291=U+11555|4292=U+11556|4293=U+11557|4295=U+11559|4301=U+11565|5024=U+43888|5025=U+43889"
    \o "|5026=U+43890|5027=U+43891|5028=U+43892|5029=U+43893|5030=U+43894|5031=U+43895|5032=U+43896"
    \o "|5033=U+43897|5034=U+43898|5035=U+43899|5036=U+43900|5037=U+43901|5038=U+43902|5039=U+43903"
    \o "|5040=U+43904|5041=U+43905|5042=U+43906|5043=U+43907|5044=U+43908|5045=U+43909|5046=U+43910"
    \o "|5047=U+43911|5048=U+43912|5049=U+43913|5050=U+43914|5051=U+43915|5052=U+43916|5053=U+43917"
    \o "|5054=U+43918|5055=U+43919|5056=U+43920|5057=U+43921|5058=U+43922|5059=U+43923|5060=U+43924"
    \o "|5061=U+43925|5062=U+43926|5063=U+43927|5064=U+43928|5065=U+43929|5066=U+43930|5067=U+43931"
    \o "|5068=U+43932|5069=U+43933|5070=U+43934|5071=U+43935|5072=U+43936|5073=U+43937|5074=U+43938"
    \o "|5075=U+43939|5076=U+43940|5077=U+43941|5078=U+43942|5079=U+43943|5080=U+43944|5081=U+43945"
    \o "|5082=U+43946|5083=U+43947|5084=U+43948|5085=U+43949|5086=U+43950|5087=U+43951|5088=U+43952"
    \o "|5089=U+43953|5090=U+43954|5091=U+43955|5092=U+43956|5093=U+43957|5094=U+43958|5095=U+43959"
    \o "|5096=U+43960|5097=U+43961|5098=U+43962|5099=U+43963|5100=U+43964|5101=U+43965|5102=U+43966"
    \o "|5103=U+43967|5104=U+5112|5105=U+5113|5106=U+5114|5107=U+5115|5108=U+5116|5109=U+5117"
    \o "|7312=U+4304|7313=U+4305|7314=U+4306|7315=U+4307|7316=U+4308|7317=U+4309|7318=U+4310|7319=U+4311"
    \o "|7320=U+4312|7321=U+4313|7322=U+4314|7323=U+4315|7324=U+4316|7325=U+4317|7326=U+4318|7327=U+4319"
    \o "|7328=U+4320|7329=U+4321|7330=U+4322|7331=U+4323|7332=U+4324|7333=U+4325|7334=U+4326|7335=U+4327"
    \o "|7336=U+4328|7337=U+4329|7338=U+4330|7339=U+4331|7340=U+4332|7341=U+4333|7342=U+4334|7343=U+4335"
    \o "|7344=U+4336|7345=U+4337|7346=U+4338|7347=U+4339|7348=U+4340|7349=U+4341|7350=U+4342|7351=U+4343"
    \o "|7352=U+4344|7353=U+4345|7354=U+4346|7357=U+4349|7358=U+4350|7359=U+4351|7680=U+7681|7682=U+7683"
    \o "|7684=U+7685|7686=U+7687|7688=U+7689|7690=U+7691|7692=U+7693|7694=U+7695|7696=U+7697|7698=U+7699"
    \o "|7700=U+7701|7702=U+7703|7704=U+7705|7706=U+7707|7708=U+7709|7710=U+7711|7712=U+7713|7714=U+7715"
    \o "|7716=U+7717|7718=U+7719|7720=U+7721|7722=U+7723|7724=U+7725|7726=U+7727|7728=U+7729|7730=U+7731"
    \o "|7732=U+7733|7734=U+7735|7736=U+7737|7738=U+7739|7740=U+7741|7742=U+7743|7744=U+7745|7746=U+7747"
    \o "|7748=U+7749|7750=U+7751|7752=U+7753|7754=U+7755|7756=U+7757|7758=U+7759|7760=U+7761|7762=U+7763"
    \o "|7764=U+7765|7766=U+7767|7768=U+7769|7770=U+7771|7772=U+7773|7774=U+7775|7776=U+7777|7778=U+7779"
    \o "|7780=U+7781|7782=U+7783|7784=U+7785|7786=U+7787|7788=U+7789|7790=U+7791|7792=U+7793|7794=U+7795"
    \o "|7796=U+7797|7798=U+7799|7800=U+7801|7802=U+7803|7804=U+7805|7806=U+7807|7808=U+7809|7810=U+7811"
    \o "|7812=U+7813|7814=U+7815|7816=U+7817|7818=U+7819|7820=U+7821|7822=U+7823|7824=U+7825|7826=U+7827"
    \o "|7828=U+7829|7838=U+223|7840=U+7841|7842=U+7843|7844=U+7845|7846=U+7847|7848=U+7849|7850=U+7851"
    \o "|7852=U+7853|7854=U+7855|7856=U+7857|7858=U+7859|7860=U+7861|7862=U+7863|7864=U+7865|7866=U+7867"
    \o "|7868=U+7869|7870=U+7871|7872=U+7873|7874=U+7875|7876=U+7877|7878=U+7879|7880=U+7881|7882=U+7883"
    \o "|7884=U+7885|7886=U+7887|7888=U+7889|7890=U+7891|7892=U+7893|7894=U+7895|7896=U+7897|7898=U+7899"
    \o "|7900=U+7901|7902=U+7903|7904=U+7905|7906=U+7907|7908=U+7909|7910=U+7911|7912=U+7913|7914=U+7915"
    \o "|7916=U+7917|7918=U+7919|7920=U+7921|7922=U+7923|7924=U+7925|7926=U+7927|7928=U+7929|7930=U+7931"
    \o "|7932=U+7933|7934=U+7935|7944=U+7936|7945=U+7937|7946=U+7938|7947=U+7939|7948=U+7940|7949=U+7941"
    \o "|7950=U+7942|7951=U+7943|7960=U+7952|7961=U+7953|7962=U+7954|7963=U+7955|7964=U+7956|7965=U+7957"
    \o "|7976=U+7968|7977=U+7969|7978=U+7970|7979=U+7971|7980=U+7972|7981=U+7973|7982=U+7974|7983=U+7975"
    \o "|7992=U+7984|7993=U+7985|7994=U+7986|7995=U+7987|7996=U+7988|7997=U+7989|7998=U+7990|7999=U+7991"
    \o "|8008=U+8000|8009=U+8001|8010=U+8002|8011=U+8003|8012=U+8004|8013=U+8005|8025=U+8017|8027=U+8019"
    \o "|8029=U+8021|8031=U+8023|8040=U+8032|8041=U+8033|8042=U+8034|8043=U+8035|8044=U+8036|8045=U+8037"
    \o "|8046=U+8038|8047=U+8039|8072=U+8064|8073=U+8065|8074=U+8066|8075=U+8067|8076=U+8068|8077=U+8069"
    \o "|8078=U+8070|8079=U+8071|8088=U+8080|8089=U+8081|8090=U+8082|8091=U+8083|8092=U+8084|8093=U+8085"
    \o "|8094=U+8086|8095=U+8087|8104=U+8096|8105=U+8097|8106=U+8098|8107=U+8099|8108=U+8100|8109=U+8101"
    \o "|8110=U+8102|8111=U+8103|8120=U+8112|8121=U+8113|8122=U+8048|8123=U+8049|8124=U+8115|8136=U+8050"
    \o "|8137=U+8051|8138=U+8052|8139=U+8053|8140=U+8131|8152=U+8144|8153=U+8145|8154=U+8054|8155=U+8055"
    \o "|8168=U+8160|8169=U+8161|8170=U+8058|8171=U+8059|8172=U+8165|8184=U+8056|8185=U+8057|8186=U+8060"
    \o "|8187=U+8061|8188=U+8179|8486=U+969|8490=k|8491=U+229|8498=U+8526|8544=U+8560|8545=U+8561"
    \o "|8546=U+8562|8547=U+8563|8548=U+8564|8549=U+8565|8550=U+8566|8551=U+8567|8552=U+8568|8553=U+8569"
    \o "|8554=U+8570|8555=U+8571|8556=U+8572|8557=U+8573|8558=U+8574|8559=U+8575|8579=U+8580|9398=U+9424"
    \o "|9399=U+9425|9400=U+9426|9401=U+9427|9402=U+9428|9403=U+9429|9404=U+9430|9405=U+9431|9406=U+9432"
    \o "|9407=U+9433|9408=U+9434|9409=U+9435|9410=U+9436|9411=U+9437|9412=U+9438|9413=U+9439|9414=U+9440"
    \o "|9415=U+9441|9416=U+9442|9417=U+9443|9418=U+9444|9419=U+9445|9420=U+9446|9421=U+9447|9422=U+9448"
    \o "|9423=U+9449|11264=U+11312|11265=U+11313|11266=U+11314|11267=U+11315|11268=U+11316|11269=U+11317"
    \o "|11270=U+11318|11271=U+11319|11272=U+11320|11273=U+11321|11274=U+11322|11275=U+11323"
    \o "|11276=U+11324|11277=U+11325|11278=U+11326|11279=U+11327|11280=U+11328|11281=U+11329"
    \o "|11282=U+11330|11283=U+11331|11284=U+11332|11285=U+11333|11286=U+11334|11287=U+11335"
    \o "|11288=U+11336|11289=U+11337|11290=U+11338|11291=U+11339|11292=U+11340|11293=U+11341"
    \o "|11294=U+11342|11295=U+11343|11296=U+11344|11297=U+11345|11298=U+11346|11299=U+11347"
    \o "|11300=U+11348|11301=U+11349|11302=U+11350|11303=U+11351|11304=U+11352|11305=U+11353"
    \o "|11306=U+11354|11307=U+11355|11308=U+11356|11309=U+11357|11310=U+11358|11311=U+11359"
    \o "|11360=U+11361|11362=U+619|11363=U+7549|11364=U+637|11367=U+11368|11369=U+11370|11371=U+11372"
    \o "|11373=U+593|11374=U+625|11375=U+592|11376=U+594|11378=U+11379|11381=U+11382|11390=U+575"
    \o "|11391=U+576|11392=U+11393|11394=U+11395|11396=U+11397|11398=U+11399|11400=U+11401|11402=U+11403"
    \o "|11404=U+11405|11406=U+11407|11408=U+11409|11410=U+11411|11412=U+11413|11414=U+11415"
    \o "|11416=U+11417|11418=U+11419|11420=U+11421|11422=U+11423|11424=U+11425|11426=U+11427"
    \o "|11428=U+11429|11430=U+11431|11432=U+11433|11434=U+11435|11436=U+11437|11438=U+11439"
    \o "|11440=U+11441|11442=U+11443|11444=U+11445|11446=U+11447|11448=U+11449|11450=U+11451"
    \o "|11452=U+11453|11454=U+11455|11456=U+11457|11458=U+11459|11460=U+11461|11462=U+11463"
    \o "|11464=U+11465|11466=U+11467|11468=U+11469|11470=U+11471|11472=U+11473|11474=U+11475"
    \o "|11476=U+11477|11478=U+11479|11480=U+11481|11482=U+11483|11484=U+11485|11486=U+11487"
    \o "|11488=U+11489|11490=U+11491|11499=U+11500|11501=U+11502|11506=U+11507|42560=U+42561"
    \o "|42562=U+42563|42564=U+42565|42566=U+42567|42568=U+42569|42570=U+42571|42572=U+42573"
    \o "|42574=U+42575|42576=U+42577|42578=U+42579|42580=U+42581|42582=U+42583|42584=U+42585"
    \o "|42586=U+42587|42588=U+42589|42590=U+42591|42592=U+42593|42594=U+42595|42596=U+42597"
    \o "|42598=U+42599|42600=U+42601|42602=U+42603|42604=U+42605|42624=U+42625|42626=U+42627"
    \o "|42628=U+42629|42630=U+42631|42632=U+42633|42634=U+42635|42636=U+42637|42638=U+42639"
    \o "|42640=U+42641|42642=U+42643|42644=U+42645|42646=U+42647|42648=U+42649|42650=U+42651"
    \o "|42786=U+42787|42788=U+42789|42790=U+42791|42792=U+42793|42794=U+42795|42796=U+42797"
    \o "|42798=U+42799|42802=U+42803|42804=U+42805|42806=U+42807|42808=U+42809|42810=U+42811"
    \o "|42812=U+42813|42814=U+42815|42816=U+42817|42818=U+42819|42820=U+42821|42822=U+42823"
    \o "|42824=U+42825|42826=U+42827|42828=U+42829|42830=U+42831|42832=U+42833|42834=U+42835"
    \o "|42836=U+42837|42838=U+42839|42840=U+42841|42842=U+42843|42844=U+42845|42846=U+42847"
    \o "|42848=U+42849|42850=U+42851|42852=U+42853|42854=U+42855|42856=U+42857|42858=U+42859"
    \o "|42860=U+42861|42862=U+42863|42873=U+42874|42875=U+42876|42877=U+7545|42878=U+42879"
    \o "|42880=U+42881|42882=U+42883|42884=U+42885|42886=U+42887|42891=U+42892|42893=U+613|42896=U+42897"
    \o "|42898=U+42899|42902=U+42903|42904=U+42905|42906=U+42907|42908=U+42909|42910=U+42911"
    \o "|42912=U+42913|42914=U+42915|42916=U+42917|42918=U+42919|42920=U+42921|42922=U+614|42923=U+604"
    \o "|42924=U+609|42925=U+620|42926=U+618|42928=U+670|42929=U+647|42930=U+669|42931=U+43859"
    \o "|42932=U+42933|42934=U+42935|42936=U+42937|42938=U+42939|42940=U+42941|42942=U+42943"
    \o "|42944=U+42945|42946=U+42947|42948=U+42900|42949=U+642|42950=U+7566|42951=U+42952|42953=U+42954"
    \o "|42960=U+42961|42966=U+42967|42968=U+42969|42997=U+42998|65313=U+65345|65314=U+65346"
    \o "|65315=U+65347|65316=U+65348|65317=U+65349|65318=U+65350|65319=U+65351|65320=U+65352"
    \o "|65321=U+65353|65322=U+65354|65323=U+65355|65324=U+65356|65325=U+65357|65326=U+65358"
    \o "|65327=U+65359|65328=U+65360|65329=U+65361|65330=U+65362|65331=U+65363|65332=U+65364"
    \o "|65333=U+65365|65334=U+65366|65335=U+65367|65336=U+65368|65337=U+65369|65338=U+65370"
    \o "|66560=U+66600|66561=U+66601|66562=U+66602|66563=U+66603|66564=U+66604|66565=U+66605"
    \o "|66566=U+66606|66567=U+66607|66568=U+66608|66569=U+66609|66570=U+66610|66571=U+66611"
    \o "|66572=U+66612|66573=U+66613|66574=U+66614|66575=U+66615|66576=U+66616|66577=U+66617"
    \o "|66578=U+66618|66579=U+66619|66580=U+66620|66581=U+66621|66582=U+66622|66583=U+66623"
    \o "|66584=U+66624|66585=U+66625|66586=U+66626|66587=U+66627|66588=U+66628|66589=U+66629"
    \o "|66590=U+66630|66591=U+66631|66592=U+66632|66593=U+66633|66594=U+66634|66595=U+66635"
    \o "|66596=U+66636|66597=U+66637|66598=U+66638|66599=U+66639|66736=U+66776|66737=U+66777"
    \o "|66738=U+66778|66739=U+66779|66740=U+66780|66741=U+66781|66742=U+66782|66743=U+66783"
    \o "|66744=U+66784|66745=U+66785|66746=U+66786|66747=U+66787|66748=U+66788|66749=U+66789"
    \o "|66750=U+66790|66751=U+66791|66752=U+66792|66753=U+66793|66754=U+66794|66755=U+66795"
    \o "|66756=U+66796|66757=U+66797|66758=U+66798|66759=U+66799|66760=U+66800|66761=U+66801"
    \o "|66762=U+66802|66763=U+66803|66764=U+66804|66765=U+66805|66766=U+66806|66767=U+66807"
    \o "|66768=U+66808|66769=U+66809|66770=U+66810|66771=U+66811|66928=U+66967|66929=U+66968"
    \o "|66930=U+66969|66931=U+66970|66932=U+66971|66933=U+66972|66934=U+66973|66935=U+66974"
    \o "|66936=U+66975|66937=U+66976|66938=U+66977|66940=U+66979|66941=U+66980|66942=U+66981"
    \o "|66943=U+66982|66944=U+66983|66945=U+66984|66946=U+66985|66947=U+66986|66948=U+66987"
    \o "|66949=U+66988|66950=U+66989|66951=U+66990|66952=U+66991|66953=U+66992|66954=U+66993"
    \o "|66956=U+66995|66957=U+66996|66958=U+66997|66959=U+66998|66960=U+66999|66961=U+67000"
    \o "|66962=U+67001|66964=U+67003|66965=U+67004|68736=U+68800|68737=U+68801|68738=U+68802"
    \o "|68739=U+68803|68740=U+68804|68741=U+68805|68742=U+68806|68743=U+68807|68744=U+68808"
    \o "|68745=U+68809|68746=U+68810|68747=U+68811|68748=U+68812|68749=U+68813|68750=U+68814"
    \o "|68751=U+68815|68752=U+68816|68753=U+68817|68754=U+68818|68755=U+68819|68756=U+68820"
    \o "|68757=U+68821|68758=U+68822|68759=U+68823|68760=U+68824|68761=U+68825|68762=U+68826"
    \o "|68763=U+68827|68764=U+68828|68765=U+68829|68766=U+68830|68767=U+68831|68768=U+68832"
    \o "|68769=U+68833|68770=U+68834|68771=U+68835|68772=U+68836|68773=U+68837|68774=U+68838"
    \o "|68775=U+68839|68776=U+68840|68777=U+68841|68778=U+68842|68779=U+68843|68780=U+68844"
    \o "|68781=U+68845|68782=U+68846|68783=U+68847|68784=U+68848|68785=U+68849|68786=U+68850"
    \o "|71840=U+71872|71841=U+71873|71842=U+71874|71843=U+71875|71844=U+71876|71845=U+71877"
    \o "|71846=U+71878|71847=U+71879|71848=U+71880|71849=U+71881|71850=U+71882|71851=U+71883"
    \o "|71852=U+71884|71853=U+71885|71854=U+71886|71855=U+71887|71856=U+71888|71857=U+71889"
    \o "|71858=U+71890|71859=U+71891|71860=U+71892|71861=U+71893|71862=U+71894|71863=U+71895"
    \o "|71864=U+71896|71865=U+71897|71866=U+71898|71867=U+71899|71868=U+71900|71869=U+71901"
    \o "|71870=U+71902|71871=U+71903|93760=U+93792|93761=U+93793|93762=U+93794|93763=U+93795"
    \o "|93764=U+93796|93765=U+93797|93766=U+93798|93767=U+93799|93768=U+93800|93769=U+93801"
    \o "|93770=U+93802|93771=U+93803|93772=U+93804|93773=U+93805|93774=U+93806|93775=U+93807"
    \o "|93776=U+93808|93777=U+93809|93778=U+93810|93779=U+93811|93780=U+93812|93781=U+93813"
    \o "|93782=U+93814|93783=U+93815|93784=U+93816|93785=U+93817|93786=U+93818|93787=U+93819"
    \o "|93788=U+93820|93789=U+93821|93790=U+93822|93791=U+93823|125184=U+125218|125185=U+125219"
    \o "|125186=U+125220|125187=U+125221|125188=U+125222|125189=U+125223|125190=U+125224|125191=U+125225"
    \o "|125192=U+125226|125193=U+125227|125194=U+125228|125195=U+125229|125196=U+125230|125197=U+125231"
    \o "|125198=U+125232|125199=U+125233|125200=U+125234|125201=U+125235|125202=U+125236|125203=U+125237"
    \o "|125204=U+125238|125205=U+125239|125206=U+125240|125207=U+125241|125208=U+125242|125209=U+125243"
    \o "|125210=U+125244|125211=U+125245|125212=U+125246|125213=U+125247|125214=U+125248|125215=U+125249"
    \o "|125216=U+125250|125217=U+125251|"

\* the cased characters from U+0080 on that are not case-ignorable, each
\* written |code|
cased_table ==
  "|170|181|186|192|193|194|195|196|197|198|199|200|201|202|203|204|205|206|207|208|209|210|211|212"
    \o "|213|214|216|217|218|219|220|221|222|223|224|225|226|227|228|229|230|231|232|233|234|235|236|237"
    \o "|238|239|240|241|242|243|244|245|246|248|249|250|251|252|253|254|255|256|257|258|259|260|261|262"
    \o "|263|264|265|266|267|268|269|270|271|272|273|274|275|276|277|278|279|280|281|282|283|284|285|286"
    \o "|287|288|289|290|291|292|293|294|295|296|297|298|299|300|301|302|303|304|305|306|307|308|309|310"
    \o "|311|312|313|314|315|316|317|318|319|320|321|322|323|324|325|326|327|328|329|330|331|332|333|334"
    \o "|335|336|337|338|339|340|341|342|343|344|345|346|347|348|349|350|351|352|353|354|355|356|357|358"
    \o "|359|360|361|362|363|364|365|366|367|368|369|370|371|372|373|374|375|376|377|378|379|380|381|382"
    \o "|383|384|385|386|387|388|389|390|391|392|393|394|395|396|397|398|399|400|401|402|403|404|405|406"
    \o "|407|408|409|410|411|412|413|414|415|416|417|418|419|420|421|422|423|424|425|426|427|428|429|430"
    \o "|431|432|433|434|435|436|437|438|439|440|441|442|444|445|446|447|452|453|454|455|456|457|458|459"
    \o "|460|461|462|463|464|465|466|467|468|469|470|471|472|473|474|475|476|477|478|479|480|481|482|483"
    \o "|484|485|486|487|488|489|490|491|492|493|494|495|496|497|498|499|500|501|502|503|504|505|506|507"
    \o "|508|509|510|511|512|513|514|515|516|517|518|519|520|521|522|523|524|525|526|527|528|529|530|531"
    \o "|532|533|534|535|536|537|538|539|540|541|542|543|544|545|546|547|548|549|550|551|552|553|554|555"
    \o "|556|557|558|559|560|561|562|563|564|565|566|567|568|569|570|571|572|573|574|575|576|577|578|579"
    \o "|580|581|582|583|584|585|586|587|588|589|590|591|592|593|594|595|596|597|598|599|600|601|602|603"
    \o "|604|605|606|607|608|609|610|611|612|613|614|615|616|617|618|619|620|621|622|623|624|625|626|627"
    \o "|628|629|630|631|632|633|634|635|636|637|638|639|640|641|642|643|644|645|646|647|648|649|650|651"
    \o "|652|653|654|655|656|657|658|659|661|662|663|664|665|666|667|668|669|670|671|672|673|674|675|676"
    \o "|677|678|679|680|681|682|683|684|685|686|687|880|881|882|883|886|887|891|892|893|895|902|904|905"
    \o "|906|908|910|911|912|913|914|915|916|917|918|919|920|921|922|923|924|925|926|927|928|929|931|932"
    \o "|933|934|935|936|937|938|939|940|941|942|943|944|945|946|947|948|949|950|951|952|953|954|955|956"
    \o "|957|958|959|960|961|962|963|964|965|966|967|968|969|970|971|972|973|974|975|976|977|978|979|980"
    \o "|981|982|983|984|985|986|987|988|989|990|991|992|993|994|995|996|997|998|999|1000|1001|1002|1003"
    \o "|1004|1005|1006|1007|1008|1009|1010|1011|1012|1013|1015|1016|1017|1018|1019|1020|1021|1022|1023"
    \o "|1024|1025|1026|1027|1028|1029|1030|1031|1032|1033|1034|1035|1036|1037|1038|1039|1040|1041|1042"
    \o "|1043|1044|1045|1046|1047|1048|1049|1050|1051|1052|1053|1054|1055|1056|1057|1058|1059|1060|1061"
    \o "|1062|1063|1064|1065|1066|1067|1068|1069|1070|1071|1072|1073|1074|1075|1076|1077|1078|1079|1080"
    \o "|1081|1082|1083|1084|1085|1086|1087|1088|1089|1090|1091|1092|1093|1094|1095|1096|1097|1098|1099"
    \o "|1100|1101|1102|1103|1104|1105|1106|1107|1108|1109|1110|1111|1112|1113|1114|1115|1116|1117|1118"
    \o "|1119|1120|1121|1122|1123|1124|1125|1126|1127|1128|1129|1130|1131|1132|1133|1134|1135|1136|1137"
    \o "|1138|1139|1140|1141|1142|1143|1144|1145|1146|1147|1148|1149|1150|1151|1152|1153|1162|1163|1164"
    \o "|1165|1166|1167|1168|1169|1170|1171|1172|1173|1174|1175|1176|1177|1178|1179|1180|1181|1182|1183"
    \o "|1184|1185|1186|1187|1188|1189|1190|1191|1192|1193|1194|1195|1196|1197|1198|1199|1200|1201|1202"
    \o "|1203|1204|1205|1206|1207|1208|1209|1210|1211|1212|1213|1214|1215|1216|1217|1218|1219|1220|1221"
    \o "|1222|1223|1224|1225|1226|1227|1228|1229|1230|1231|1232|1233|1234|1235|1236|1237|1238|1239|1240"
    \o "|1241|1242|1243|1244|1245|1246|1247|1248|1249|1250|1251|1252|1253|1254|1255|1256|1257|1258|1259"
    \o "|1260|1261|1262|1263|1264|1265|1266|1267|1268|1269|1270|1271|1272|1273|1274|1275|1276|1277|1278"
    \o "|1279|1280|1281|1282|1283|1284|1285|1286|1287|1288|1289|1290|1291|1292|1293|1294|1295|1296|1297"
    \o "|1298|1299|1300|1301|1302|1303|1304|1305|1306|1307|1308|1309|1310|1311|1312|1313|1314|1315|1316"
    \o "|1317|1318|1319|1320|1321|1322|1323|1324|1325|1326|1327|1329|1330|1331|1332|1333|1334|1335|1336"
    \o "|1337|1338|1339|1340|1341|1342|1343|1344|1345|1346|1347|1348|1349|1350|1351|1352|1353|1354|1355"
    \o "|1356|1357|1358|1359|1360|1361|1362|1363|1364|1365|1366|1376|1377|1378|1379|1380|1381|1382|1383"
    \o "|1384|1385|1386|1387|1388|1389|1390|1391|1392|1393|1394|1395|1396|1397|1398|1399|1400|1401|1402"
    \o "|1403|1404|1405|1406|1407|1408|1409|1410|1411|1412|1413|1414|1415|1416|4256|4257|4258|4259|4260"
    \o "|4261|4262|4263|4264|4265|4266|4267|4268|4269|4270|4271|4272|4273|4274|4275|4276|4277|4278|4279"
    \o "|4280|4281|4282|4283|4284|4285|4286|4287|4288|4289|4290|4291|4292|4293|4295|4301|4304|4305|4306"
    \o "|4307|4308|4309|4310|4311|4312|4313|4314|4315|4316|4317|4318|4319|4320|4321|4322|4323|4324|4325"
    \o "|4326|4327|4328|4329|4330|4331|4332|4333|4334|4335|4336|4337|4338|4339|4340|4341|4342|4343|4344"
    \o "|4345|4346|4349|4350|4351|5024|5025|5026|5027|5028|5029|5030|5031|5032|5033|5034|5035|5036|5037"
    \o "|5038|5039|5040|5041|5042|5043|5044|5045|5046|5047|5048|5049|5050|5051|5052|5053|5054|5055|5056"
    \o "|5057|5058|5059|5060|5061|5062|5063|5064|5065|5066|5067|5068|5069|5070|5071|5072|5073|5074|5075"
    \o "|5076|5077|5078|5079|5080|5081|5082|5083|5084|5085|5086|5087|5088|5089|5090|5091|5092|5093|5094"
    \o "|5095|5096|5097|5098|5099|5100|5101|5102|5103|5104|5105|5106|5107|5108|5109|5112|5113|5114|5115"
    \o "|5116|5117|7296|7297|7298|7299|7300|7301|7302|7303|7304|7312|7313|7314|7315|7316|7317|7318|7319"
    \o "|7320|7321|7322|7323|7324|7325|7326|7327|7328|7329|7330|7331|7332|7333|7334|7335|7336|7337|7338"
    \o "|7339|7340|7341|7342|7343|7344|7345|7346|7347|7348|7349|7350|7351|7352|7353|7354|7357|7358|7359"
    \o "|7424|7425|7426|7427|7428|7429|7430|7431|7432|7433|7434|7435|7436|7437|7438|7439|7440|7441|7442"
    \o "|7443|7444|7445|7446|7447|7448|7449|7450|7451|7452|7453|7454|7455|7456|7457|7458|7459|7460|7461"
    \o "|7462|7463|7464|7465|7466|7467|7531|7532|7533|7534|7535|7536|7537|7538|7539|7540|7541|7542|7543"
    \o "|7545|7546|7547|7548|7549|7550|7551|7552|7553|7554|7555|7556|7557|7558|7559|7560|7561|7562|7563"
    \o "|7564|7565|7566|7567|7568|7569|7570|7571|7572|7573|7574|7575|7576|7577|7578|7680|7681|7682|7683"
    \o "|7684|7685|7686|7687|7688|7689|7690|7691|7692|7693|7694|7695|7696|7697|7698|7699|7700|7701|7702"
    \o "|7703|7704|7705|7706|7707|7708|7709|7710|7711|7712|7713|7714|7715|7716|7717|7718|7719|7720|7721"
    \o "|7722|7723|7724|7725|7726|7727|7728|7729|7730|7731|7732|7733|7734|7735|7736|7737|7738|7739|7740"
    \o "|7741|7742|7743|7744|7745|7746|7747|7748|7749|7750|7751|7752|7753|7754|7755|7756|7757|7758|7759"
    \o "|7760|7761|7762|7763|7764|7765|7766|7767|7768|7769|7770|7771|7772|7773|7774|7775|7776|7777|7778"
    \o "|7779|7780|7781|7782|7783|7784|7785|7786|7787|7788|7789|7790|7791|7792|7793|7794|7795|7796|7797"
    \o "|7798|7799|7800|7801|7802|7803|7804|7805|7806|7807|7808|7809|7810|7811|7812|7813|7814|7815|7816"
    \o "|7817|7818|7819|7820|7821|7822|7823|7824|7825|7826|7827|7828|7829|7830|7831|7832|7833|7834|7835"
    \o "|7836|7837|7838|7839|7840|7841|7842|7843|7844|7845|7846|7847|7848|7849|7850|7851|7852|7853|7854"
    \o "|7855|7856|7857|7858|7859|7860|7861|7862|7863|7864|7865|7866|7867|7868|7869|7870|7871|7872|7873"
    \o "|7874|7875|7876|7877|7878|7879|7880|7881|7882|7883|7884|7885|7886|7887|7888|7889|7890|7891|7892"
    \o "|7893|7894|7895|7896|7897|7898|7899|7900|7901|7902|7903|7904|7905|7906|7907|7908|7909|7910|7911"
    \o "|7912|7913|7914|7915|7916|7917|7918|7919|7920|7921|7922|7923|7924|7925|7926|7927|7928|7929|7930"
    \o "|7931|7932|7933|7934|7935|7936|7937|7938|7939|7940|7941|7942|7943|7944|7945|7946|7947|7948|7949"
    \o "|7950|7951|7952|7953|7954|7955|7956|7957|7960|7961|7962|7963|7964|7965|7968|7969|7970|7971|7972"
    \o "|7973|7974|7975|7976|7977|7978|7979|7980|7981|7982|7983|7984|7985|7986|7987|7988|7989|7990|7991"
    \o "|7992|7993|7994|7995|7996|7997|7998|7999|8000|8001|8002|8003|8004|8005|8008|8009|8010|8011|8012"
    \o "|8013|8016|8017|8018|8019|8020|8021|8022|8023|8025|8027|8029|8031|8032|8033|8034|8035|8036|8037"
    \o "|8038|8039|8040|8041|8042|8043|8044|8045|8046|8047|8048|8049|8050|8051|8052|8053|8054|8055|8056"
    \o "|8057|8058|8059|8060|8061|8064|8065|8066|8067|8068|8069|8070|8071|8072|8073|8074|8075|8076|8077"
    \o "|8078|8079|8080|8081|8082|8083|8084|8085|8086|8087|8088|8089|8090|8091|8092|8093|8094|8095|8096"
    \o "|8097|8098|8099|8100|8101|8102|8103|8104|8105|8106|8107|8108|8109|8110|8111|8112|8113|8114|8115"
    \o "|8116|8118|8119|8120|8121|8122|8123|8124|8126|8130|8131|8132|8134|8135|8136|8137|8138|8139|8140"
    \o "|8144|8145|8146|8147|8150|8151|8152|8153|8154|8155|8160|8161|8162|8163|8164|8165|8166|8167|8168"
    \o "|8169|8170|8171|8172|8178|8179|8180|8182|8183|8184|8185|8186|8187|8188|8450|8455|8458|8459|8460"
    \o "|8461|8462|8463|8464|8465|8466|8467|8469|8473|8474|8475|8476|8477|8484|8486|8488|8490|8491|8492"
    \o "|8493|8495|8496|8497|8498|8499|8500|8505|8508|8509|8510|8511|8517|8518|8519|8520|8521|8526|8544"
    \o "|8545|8546|8547|8548|8549|8550|8551|8552|8553|8554|8555|8556|8557|8558|8559|8560|8561|8562|8563"
    \o "|8564|8565|8566|8567|8568|8569|8570|8571|8572|8573|8574|8575|8579|8580|9398|9399|9400|9401|9402"
    \o "|9403|9404|9405|9406|9407|9408|9409|9410|9411|9412|9413|9414|9415|9416|9417|9418|9419|9420|9421"
    \o "|9422|9423|9424|9425|9426|9427|9428|9429|9430|9431|9432|9433|9434|9435|9436|9437|9438|9439|9440"
    \o "|9441|9442|9443|9444|9445|9446|9447|9448|9449|11264|11265|11266|11267|11268|11269|11270|11271"
    \o "|11272|11273|11274|11275|11276|11277|11278|11279|11280|11281|11282|11283|11284|11285|11286|11287"
    \o "|11288|11289|11290|11291|11292|11293|11294|11295|11296|11297|11298|11299|11300|11301|11302|11303"
    \o "|11304|11305|11306|11307|11308|11309|11310|11311|11312|11313|11314|11315|11316|11317|11318|11319"
    \o "|11320|11321|11322|11323|11324|11325|11326|11327|11328|11329|11330|11331|11332|11333|11334|11335"
    \o "|11336|11337|11338|11339|11340|11341|11342|11343|11344|11345|11346|11347|11348|11349|11350|11351"
    \o "|11352|11353|11354|11355|11356|11357|11358|11359|11360|11361|11362|11363|11364|11365|11366|11367"
    \o "|11368|11369|11370|11371|11372|11373|11374|11375|11376|11377|11378|11379|11380|11381|11382|11383"
    \o "|11384|11385|11386|11387|11390|11391|11392|11393|11394|11395|11396|11397|11398|11399|11400|11401"
    \o "|11402|11403|11404|11405|11406|11407|11408|11409|11410|11411|11412|11413|11414|11415|11416|11417"
    \o "|11418|11419|11420|11421|11422|11423|11424|11425|11426|11427|11428|11429|11430|11431|11432|11433"
    \o "|11434|11435|11436|11437|11438|11439|11440|11441|11442|11443|11444|11445|11446|11447|11448|11449"
    \o "|11450|11451|11452|11453|11454|11455|11456|11457|11458|11459|11460|11461|11462|11463|11464|11465"
    \o "|11466|11467|11468|11469|11470|11471|11472|11473|11474|11475|11476|11477|11478|11479|11480|11481"
    \o "|11482|11483|11484|11485|11486|11487|11488|11489|11490|11491|11492|11499|11500|11501|11502|11506"
    \o "|11507|11520|11521|11522|11523|11524|11525|11526|11527|11528|11529|11530|11531|11532|11533|11534"
    \o "|11535|11536|11537|11538|11539|11540|11541|11542|11543|11544|11545|11546|11547|11548|11549|11550"
    \o "|11551|11552|11553|11554|11555|11556|11557|11559|11565|42560|42561|42562|42563|42564|42565|42566"
    \o "|42567|42568|42569|42570|42571|42572|42573|42574|42575|42576|42577|42578|42579|42580|42581|42582"
    \o "|42583|42584|42585|42586|42587|42588|42589|42590|42591|42592|42593|42594|42595|42596|42597|42598"
    \o "|42599|42600|42601|42602|42603|42604|42605|42624|42625|42626|42627|42628|42629|42630|42631|42632"
    \o "|42633|42634|42635|42636|42637|42638|42639|42640|42641|42642|42643|42644|42645|42646|42647|42648"
    \o "|42649|42650|42651|42786|42787|42788|42789|42790|42791|42792|42793|42794|42795|42796|42797|42798"
    \o "|42799|42800|42801|42802|42803|42804|42805|42806|42807|42808|42809|42810|42811|42812|42813|42814"
    \o "|42815|42816|42817|42818|42819|42820|42821|42822|42823|42824|42825|42826|42827|42828|42829|42830"
    \o "|42831|42832|42833|42834|42835|42836|42837|42838|42839|42840|42841|42842|42843|42844|42845|42846"
    \o "|42847|42848|42849|42850|42851|42852|42853|42854|42855|42856|42857|42858|42859|42860|42861|42862"
    \o "|42863|42865|42866|42867|42868|42869|42870|42871|42872|42873|42874|42875|42876|42877|42878|42879"
    \o "|42880|42881|42882|42883|42884|42885|42886|42887|42891|42892|42893|42894|42896|42897|42898|42899"
    \o "|42900|42901|42902|42903|42904|42905|42906|42907|42908|42909|42910|42911|42912|42913|42914|42915"
    \o "|42916|42917|42918|42919|42920|42921|42922|42923|42924|42925|42926|42927|42928|42929|42930|42931"
    \o "|42932|42933|42934|42935|42936|42937|42938|42939|42940|42941|42942|42943|42944|42945|42946|42947"
    \o "|42948|42949|42950|42951|42952|42953|42954|42960|42961|42963|42965|42966|42967|42968|42969|42997"
    \o "|42998|43002|43824|43825|43826|43827|43828|43829|43830|43831|43832|43833|43834|43835|43836|43837"
    \o "|43838|43839|43840|43841|43842|43843|43844|43845|43846|43847|43848|43849|43850|43851|43852|43853"
    \o "|43854|43855|43856|43857|43858|43859|43860|43861|43862|43863|43864|43865|43866|43872|43873|43874"
    \o "|43875|43876|43877|43878|43879|43880|43888|43889|43890|43891|43892|43893|43894|43895|43896|43897"
    \o "|43898|43899|43900|43901|43902|43903|43904|43905|43906|43907|43908|43909|43910|43911|43912|43913"
    \o "|43914|43915|43916|43917|43918|43919|43920|43921|43922|43923|43924|43925|43926|43927|43928|43929"
    \o "|43930|43931|43932|43933|43934|43935|43936|43937|43938|43939|43940|43941|43942|43943|43944|43945"
    \o "|43946|43947|43948|43949|43950|43951|43952|43953|43954|43955|43956|43957|43958|43959|43960|43961"
    \o "|43962|43963|43964|43965|43966|43967|64256|64257|64258|64259|64260|64261|64262|64275|64276|64277"
    \o "|64278|64279|65313|65314|65315|65316|65317|65318|65319|65320|65321|65322|65323|65324|65325|65326"
    \o "|65327|65328|65329|65330|65331|65332|65333|65334|65335|65336|65337|65338|65345|65346|65347|65348"
    \o "|65349|65350|65351|65352|65353|65354|65355|65356|65357|65358|65359|65360|65361|65362|65363|65364"
    \o "|65365|65366|65367|65368|65369|65370|66560|66561|66562|66563|66564|66565|66566|66567|66568|66569"
    \o "|66570|66571|66572|66573|66574|66575|66576|66577|66578|66579|66580|66581|66582|66583|66584|66585"
    \o "|66586|66587|66588|66589|66590|66591|66592|66593|66594|66595|66596|66597|66598|66599|66600|66601"
    \o "|66602|66603|66604|66605|66606|66607|66608|66609|66610|66611|66612|66613|66614|66615|66616|66617"
    \o "|66618|66619|66620|66621|66622|66623|66624|66625|66626|66627|66628|66629|66630|66631|66632|66633"
    \o "|66634|66635|66636|66637|66638|66639|66736|66737|66738|66739|66740|66741|66742|66743|66744|66745"
    \o "|66746|66747|66748|66749|66750|66751|66752|66753|66754|66755|66756|66757|66758|66759|66760|66761"
    \o "|66762|66763|66764|66765|66766|66767|66768|66769|66770|66771|66776|66777|66778|66779|66780|66781"
    \o "|66782|66783|66784|66785|66786|66787|66788|66789|66790|66791|66792|66793|66794|66795|66796|66797"
    \o "|66798|66799|66800|66801|66802|66803|66804|66805|66806|66807|66808|66809|66810|66811|66928|66929"
    \o "|66930|66931|66932|66933|66934|66935|66936|66937|66938|66940|66941|66942|66943|66944|66945|66946"
    \o "|66947|66948|66949|66950|66951|66952|66953|66954|66956|66957|66958|66959|66960|66961|66962|66964"
    \o "|66965|66967|66968|66969|66970|66971|66972|66973|66974|66975|66976|66977|66979|66980|66981|66982"
    \o "|66983|66984|66985|66986|66987|66988|66989|66990|66991|66992|66993|66995|66996|66997|66998|66999"
    \o "|67000|67001|67003|67004|68736|68737|68738|68739|68740|68741|68742|68743|68744|68745|68746|68747"
    \o "|68748|68749|68750|68751|68752|68753|68754|68755|68756|68757|68758|68759|68760|68761|68762|68763"
    \o "|68764|68765|68766|68767|68768|68769|68770|68771|68772|68773|68774|68775|68776|68777|68778|68779"
    \o "|68780|68781|68782|68783|68784|68785|68786|68800|68801|68802|68803|68804|68805|68806|68807|68808"
    \o "|68809|68810|68811|68812|68813|68814|68815|68816|68817|68818|68819|68820|68821|68822|68823|68824"
    \o "|68825|68826|68827|68828|68829|68830|68831|68832|68833|68834|68835|68836|68837|68838|68839|68840"
    \o "|68841|68842|68843|68844|68845|68846|68847|68848|68849|68850|71840|71841|71842|71843|71844|71845"
    \o "|71846|71847|71848|71849|71850|71851|71852|71853|71854|71855|71856|71857|71858|71859|71860|71861"
    \o "|71862|71863|71864|71865|71866|71867|71868|71869|71870|71871|71872|71873|71874|71875|71876|71877"
    \o "|71878|71879|71880|71881|71882|71883|71884|71885|71886|71887|71888|71889|71890|71891|71892|71893"
    \o "|71894|71895|71896|71897|71898|71899|71900|71901|71902|71903|93760|93761|93762|93763|93764|93765"
    \o "|93766|93767|93768|93769|93770|93771|93772|93773|93774|93775|93776|93777|93778|93779|93780|93781"
    \o "|93782|93783|93784|93785|93786|93787|93788|93789|93790|93791|93792|93793|93794|93795|93796|93797"
    \o "|93798|93799|93800|93801|93802|93803|93804|93805|93806|93807|93808|93809|93810|93811|93812|93813"
    \o "|93814|93815|93816|93817|93818|93819|93820|93821|93822|93823|119808|119809|119810|119811|119812"
    \o "|119813|119814|119815|119816|119817|119818|119819|119820|119821|119822|119823|119824|119825"
    \o "|119826|119827|119828|119829|119830|119831|119832|119833|119834|119835|119836|119837|119838"
    \o "|119839|119840|119841|119842|119843|119844|119845|119846|119847|119848|119849|119850|119851"
    \o "|119852|119853|119854|119855|119856|119857|119858|119859|119860|119861|119862|119863|119864"
    \o "|119865|119866|119867|119868|119869|119870|119871|119872|119873|119874|119875|119876|119877"
    \o "|119878|119879|119880|119881|119882|119883|119884|119885|119886|119887|119888|119889|119890"
    \o "|119891|119892|119894|119895|119896|119897|119898|119899|119900|119901|119902|119903|119904"
    \o "|119905|119906|119907|119908|119909|119910|119911|119912|119913|119914|119915|119916|119917"
    \o "|119918|119919|119920|119921|119922|119923|119924|119925|119926|119927|119928|119929|119930"
    \o "|119931|119932|119933|119934|119935|119936|119937|119938|119939|119940|119941|119942|119943"
    \o "|119944|119945|119946|119947|119948|119949|119950|119951|119952|119953|119954|119955|119956"
    \o "|119957|119958|119959|119960|119961|119962|119963|119964|119966|119967|119970|119973|119974"
    \o "|119977|119978|119979|119980|119982|119983|119984|119985|119986|119987|119988|119989|119990"
    \o "|119991|119992|119993|119995|119997|119998|119999|120000|120001|120002|120003|120005|120006"
    \o "|120007|120008|120009|120010|120011|120012|120013|120014|120015|120016|120017|120018|120019"
    \o "|120020|120021|120022|120023|120024|120025|120026|120027|120028|120029|120030|120031|120032"
    \o "|120033|120034|120035|120036|120037|120038|120039|120040|120041|120042|120043|120044|120045"
    \o "|120046|120047|120048|120049|120050|120051|120052|120053|120054|120055|120056|120057|120058"
    \o "|120059|120060|120061|120062|120063|120064|120065|120066|120067|120068|120069|120071|120072"
    \o "|120073|120074|120077|120078|120079|120080|120081|120082|120083|120084|120086|120087|120088"
    \o "|120089|120090|120091|120092|120094|120095|120096|120097|120098|120099|120100|120101|120102"
    \o "|120103|120104|120105|120106|120107|120108|120109|120110|120111|120112|120113|120114|120115"
    \o "|120116|120117|120118|120119|120120|120121|120123|120124|120125|120126|120128|120129|120130"
    \o "|120131|120132|120134|120138|120139|120140|120141|120142|120143|120144|120146|120147|120148"
    \o "|120149|120150|120151|120152|120153|120154|120155|120156|120157|120158|120159|120160|120161"
    \o "|120162|120163|120164|120165|120166|120167|120168|120169|120170|120171|120172|120173|120174"
    \o "|120175|120176|120177|120178|120179|120180|120181|120182|120183|120184|120185|120186|120187"
    \o "|120188|120189|120190|120191|120192|120193|120194|120195|120196|120197|120198|120199|120200"
    \o "|120201|120202|120203|120204|120205|120206|120207|120208|120209|120210|120211|120212|120213"
    \o "|120214|120215|120216|120217|120218|120219|120220|120221|120222|120223|120224|120225|120226"
    \o "|120227|120228|120229|120230|120231|120232|120233|120234|120235|120236|120237|120238|120239"
    \o "|120240|120241|120242|120243|120244|120245|120246|120247|120248|120249|120250|120251|120252"
    \o "|120253|120254|120255|120256|120257|120258|120259|120260|120261|120262|120263|120264|120265"
    \o "|120266|120267|120268|120269|120270|120271|120272|120273|120274|120275|120276|120277|120278"
    \o "|120279|120280|120281|120282|120283|120284|120285|120286|120287|120288|120289|120290|120291"
    \o "|120292|120293|120294|120295|120296|120297|120298|120299|120300|120301|120302|120303|120304"
    \o "|120305|120306|120307|120308|120309|120310|120311|120312|120313|120314|120315|120316|120317"
    \o "|120318|120319|120320|120321|120322|120323|120324|120325|120326|120327|120328|120329|120330"
    \o "|120331|120332|120333|120334|120335|120336|120337|120338|120339|120340|120341|120342|120343"
    \o "|120344|120345|120346|120347|120348|120349|120350|120351|120352|120353|120354|120355|120356"
    \o "|120357|120358|120359|120360|120361|120362|120363|120364|120365|120366|120367|120368|120369"
    \o "|120370|120371|120372|120373|120374|120375|120376|120377|120378|120379|120380|120381|120382"
    \o "|120383|120384|120385|120386|120387|120388|120389|120390|120391|120392|120393|120394|120395"
    \o "|120396|120397|120398|120399|120400|120401|120402|120403|120404|120405|120406|120407|120408"
    \o "|120409|120410|120411|120412|120413|120414|120415|120416|120417|120418|120419|120420|120421"
    \o "|120422|120423|120424|120425|120426|120427|120428|120429|120430|120431|120432|120433|120434"
    \o "|120435|120436|120437|120438|120439|120440|120441|120442|120443|120444|120445|120446|120447"
    \o "|120448|120449|120450|120451|120452|120453|120454|120455|120456|120457|120458|120459|120460"
    \o "|120461|120462|120463|120464|120465|120466|120467|120468|120469|120470|120471|120472|120473"
    \o "|120474|120475|120476|120477|120478|120479|120480|120481|120482|120483|120484|120485|120488"
    \o "|120489|120490|120491|120492|120493|120494|120495|120496|120497|120498|120499|120500|120501"
    \o "|120502|120503|120504|120505|120506|120507|120508|120509|120510|120511|120512|120514|120515"
    \o "|120516|120517|120518|120519|120520|120521|120522|120523|120524|120525|120526|120527|120528"
    \o "|120529|120530|120531|120532|120533|120534|120535|120536|120537|120538|120540|120541|120542"
    \o "|120543|120544|120545|120546|120547|120548|120549|120550|120551|120552|120553|120554|120555"
    \o "|120556|120557|120558|120559|120560|120561|120562|120563|120564|120565|120566|120567|120568"
    \o "|120569|120570|120572|120573|120574|120575|120576|120577|120578|120579|120580|120581|120582"
    \o "|120583|120584|120585|120586|120587|120588|120589|120590|120591|120592|120593|120594|120595"
    \o "|120596|120598|120599|120600|120601|120602|120603|120604|120605|120606|120607|120608|120609"
    \o "|120610|120611|120612|120613|120614|120615|120616|120617|120618|120619|120620|120621|120622"
    \o "|120623|120624|120625|120626|120627|120628|120630|120631|120632|120633|120634|120635|120636"
    \o "|120637|120638|120639|120640|120641|120642|120643|120644|120645|120646|120647|120648|120649"
    \o "|120650|120651|120652|120653|120654|120656|120657|120658|120659|120660|120661|120662|120663"
    \o "|120664|120665|120666|120667|120668|120669|120670|120671|120672|120673|120674|120675|120676"
    \o "|120677|120678|120679|120680|120681|120682|120683|120684|120685|120686|120688|120689|120690"
    \o "|120691|120692|120693|120694|120695|120696|120697|120698|120699|120700|120701|120702|120703"
    \o "|120704|120705|120706|120707|120708|120709|120710|120711|120712|120714|120715|120716|120717"
    \o "|120718|120719|120720|120721|120722|120723|120724|120725|120726|120727|120728|120729|120730"
    \o "|120731|120732|120733|120734|120735|120736|120737|120738|120739|120740|120741|120742|120743"
    \o "|120744|120746|120747|120748|120749|120750|120751|120752|120753|120754|120755|120756|120757"
    \o "|120758|120759|120760|120761|120762|120763|120764|120765|120766|120767|120768|120769|120770"
    \o "|120772|120773|120774|120775|120776|120777|120778|120779|122624|122625|122626|122627|122628"
    \o "|122629|122630|122631|122632|122633|122635|122636|122637|122638|122639|122640|122641|122642"
    \o "|122643|122644|122645|122646|122647|122648|122649|122650|122651|122652|122653|122654|125184"
    \o "|125185|125186|125187|125188|125189|125190|125191|125192|125193|125194|125195|125196|125197"
    \o "|125198|125199|125200|125201|125202|125203|125204|125205|125206|125207|125208|125209|125210"
    \o "|125211|125212|125213|125214|125215|125216|125217|125218|125219|125220|125221|125222|125223"
    \o "|125224|125225|125226|125227|125228|125229|125230|125231|125232|125233|125234|125235|125236"
    \o "|125237|125238|125239|125240|125241|125242|125243|125244|125245|125246|125247|125248|125249"
    \o "|125250|125251|127280|127281|127282|127283|127284|127285|127286|127287|127288|127289|127290"
    \o "|127291|127292|127293|127294|127295|127296|127297|127298|127299|127300|127301|127302|127303"
    \o "|127304|127305|127312|127313|127314|127315|127316|127317|127318|127319|127320|127321|127322"
    \o "|127323|127324|127325|127326|127327|127328|127329|127330|127331|127332|127333|127334|127335"
    \o "|127336|127337|127344|127345|127346|127347|127348|127349|127350|127351|127352|127353|127354"
    \o "|127355|127356|127357|127358|127359|127360|127361|127362|127363|127364|127365|127366|127367"
    \o "|127368|127369|"

\* the case-ignorable characters from U+0080 on, each written |code|
case_ignorable_table ==
  "|168|173|175|180|183|184|688|689|690|691|692|693|694|695|696|697|698|699|700|701|702|703|704|705"
    \o "|706|707|708|709|710|711|712|713|714|715|716|717|718|719|720|721|722|723|724|725|726|727|728|729"
    \o "|730|731|732|733|734|735|736|737|738|739|740|741|742|743|744|745|746|747|748|749|750|751|752|753"
    \o "|754|755|756|757|758|759|760|761|762|763|764|765|766|767|768|769|770|771|772|773|774|775|776|777"
    \o "|778|779|780|781|782|783|784|785|786|787|788|789|790|791|792|793|794|795|796|797|798|799|800|801"
    \o "|802|803|804|805|806|807|808|809|810|811|812|813|814|815|816|817|818|819|820|821|822|823|824|825"
    \o "|826|827|828|829|830|831|832|833|834|835|836|837|838|839|840|841|842|843|844|845|846|847|848|849"
    \o "|850|851|852|853|854|855|856|857|858|859|860|861|862|863|864|865|866|867|868|869|870|871|872|873"
    \o "|874|875|876|877|878|879|884|885|890|900|901|903|1155|1156|1157|1158|1159|1160|1161|1369|1375"
    \o "|1425|1426|1427|1428|1429|1430|1431|1432|1433|1434|1435|1436|1437|1438|1439|1440|1441|1442|1443"
    \o "|1444|1445|1446|1447|1448|1449|1450|1451|1452|1453|1454|1455|1456|1457|1458|1459|1460|1461|1462"
    \o "|1463|1464|1465|1466|1467|1468|1469|1471|1473|1474|1476|1477|1479|1524|1536|1537|1538|1539|1540"
    \o "|1541|1552|1553|1554|1555|1556|1557|1558|1559|1560|1561|1562|1564|1600|1611|1612|1613|1614|1615"
    \o "|1616|1617|1618|1619|1620|1621|1622|1623|1624|1625|1626|1627|1628|1629|1630|1631|1648|1750|1751"
    \o "|1752|1753|1754|1755|1756|1757|1759|1760|1761|1762|1763|1764|1765|1766|1767|1768|1770|1771|1772"
    \o "|1773|1807|1809|1840|1841|1842|1843|1844|1845|1846|1847|1848|1849|1850|1851|1852|1853|1854|1855"
    \o "|1856|1857|1858|1859|1860|1861|1862|1863|1864|1865|1866|1958|1959|1960|1961|1962|1963|1964|1965"
    \o "|1966|1967|1968|2027|2028|2029|2030|2031|2032|2033|2034|2035|2036|2037|2042|2045|2070|2071|2072"
    \o "|2073|2074|2075|2076|2077|2078|2079|2080|2081|2082|2083|2084|2085|2086|2087|2088|2089|2090|2091"
    \o "|2092|2093|2137|2138|2139|2184|2192|2193|2200|2201|2202|2203|2204|2205|2206|2207|2249|2250|2251"
    \o "|2252|2253|2254|2255|2256|2257|2258|2259|2260|2261|2262|2263|2264|2265|2266|2267|2268|2269|2270"
    \o "|2271|2272|2273|2274|2275|2276|2277|2278|2279|2280|2281|2282|2283|2284|2285|2286|2287|2288|2289"
    \o "|2290|2291|2292|2293|2294|2295|2296|2297|2298|2299|2300|2301|2302|2303|2304|2305|2306|2362|2364"
    \o "|2369|2370|2371|2372|2373|2374|2375|2376|2381|2385|2386|2387|2388|2389|2390|2391|2402|2403|2417"
    \o "|2433|2492|2497|2498|2499|2500|2509|2530|2531|2558|2561|2562|2620|2625|2626|2631|2632|2635|2636"
    \o "|2637|2641|2672|2673|2677|2689|2690|2748|2753|2754|2755|2756|2757|2759|2760|2765|2786|2787|2810"
    \o "|2811|2812|2813|2814|2815|2817|2876|2879|2881|2882|2883|2884|2893|2901|2902|2914|2915|2946|3008"
    \o "|3021|3072|3076|3132|3134|3135|3136|3142|3143|3144|3146|3147|3148|3149|3157|3158|3170|3171|3201"
    \o "|3260|3263|3270|3276|3277|3298|3299|3328|3329|3387|3388|3393|3394|3395|3396|3405|3426|3427|3457"
    \o "|3530|3538|3539|3540|3542|3633|3636|3637|3638|3639|3640|3641|3642|3654|3655|3656|3657|3658|3659"
    \o "|3660|3661|3662|3761|3764|3765|3766|3767|3768|3769|3770|3771|3772|3782|3784|3785|3786|3787|3788"
    \o "|3789|3864|3865|3893|3895|3897|3953|3954|3955|3956|3957|3958|3959|3960|3961|3962|3963|3964|3965"
    \o "|3966|3968|3969|3970|3971|3972|3974|3975|3981|3982|3983|3984|3985|3986|3987|3988|3989|3990|3991"
    \o "|3993|3994|3995|3996|3997|3998|3999|4000|4001|4002|4003|4004|4005|4006|4007|4008|4009|4010|4011"
    \o "|4012|4013|4014|4015|4016|4017|4018|4019|4020|4021|4022|4023|4024|4025|4026|4027|4028|4038|4141"
    \o "|4142|4143|4144|4146|4147|4148|4149|4150|4151|4153|4154|4157|4158|4184|4185|4190|4191|4192|4209"
    \o "|4210|4211|4212|4226|4229|4230|4237|4253|4348|4957|4958|4959|5906|5907|5908|5938|5939|5970|5971"
    \o "|6002|6003|6068|6069|6071|6072|6073|6074|6075|6076|6077|6086|6089|6090|6091|6092|6093|6094|6095"
    \o "|6096|6097|6098|6099|6103|6109|6155|6156|6157|6158|6159|6211|6277|6278|6313|6432|6433|6434|6439"
    \o "|6440|6450|6457|6458|6459|6679|6680|6683|6742|6744|6745|6746|6747|6748|6749|6750|6752|6754|6757"
    \o "|6758|6759|6760|6761|6762|6763|6764|6771|6772|6773|6774|6775|6776|6777|6778|6779|6780|6783|6823"
    \o "|6832|6833|6834|6835|6836|6837|6838|6839|6840|6841|6842|6843|6844|6845|6846|6847|6848|6849|6850"
    \o "|6851|6852|6853|6854|6855|6856|6857|6858|6859|6860|6861|6862|6912|6913|6914|6915|6964|6966|6967"
    \o "|6968|6969|6970|6972|6978|7019|7020|7021|7022|7023|7024|7025|7026|7027|7040|7041|7074|7075|7076"
    \o "|7077|7080|7081|7083|7084|7085|7142|7144|7145|7149|7151|7152|7153|7212|7213|7214|7215|7216|7217"
    \o "|7218|7219|7222|7223|7288|7289|7290|7291|7292|7293|7376|7377|7378|7380|7381|7382|7383|7384|7385"
    \o "|7386|7387|7388|7389|7390|7391|7392|7394|7395|7396|7397|7398|7399|7400|7405|7412|7416|7417|7468"
    \o "|7469|7470|7471|7472|7473|7474|7475|7476|7477|7478|7479|7480|7481|7482|7483|7484|7485|7486|7487"
    \o "|7488|7489|7490|7491|7492|7493|7494|7495|7496|7497|7498|7499|7500|7501|7502|7503|7504|7505|7506"
    \o "|7507|7508|7509|7510|7511|7512|7513|7514|7515|7516|7517|7518|7519|7520|7521|7522|7523|7524|7525"
    \o "|7526|7527|7528|7529|7530|7544|7579|7580|7581|7582|7583|7584|7585|7586|7587|7588|7589|7590|7591"
    \o "|7592|7593|7594|7595|7596|7597|7598|7599|7600|7601|7602|7603|7604|7605|7606|7607|7608|7609|7610"
    \o "|7611|7612|7613|7614|7615|7616|7617|7618|7619|7620|7621|7622|7623|7624|7625|7626|7627|7628|7629"
    \o "|7630|7631|7632|7633|7634|7635|7636|7637|7638|7639|7640|7641|7642|7643|7644|7645|7646|7647|7648"
    \o "|7649|7650|7651|7652|7653|7654|7655|7656|7657|7658|7659|7660|7661|7662|7663|7664|7665|7666|7667"
    \o "|7668|7669|7670|7671|7672|7673|7674|7675|7676|7677|7678|7679|8125|8127|8128|8129|8141|8142|8143"
    \o "|8157|8158|8159|8173|8174|8175|8189|8190|8203|8204|8205|8206|8207|8216|8217|8228|8231|8234|8235"
    \o "|8236|8237|8238|8288|8289|8290|8291|8292|8294|8295|8296|8297|8298|8299|8300|8301|8302|8303|8305"
    \o "|8319|8336|8337|8338|8339|8340|8341|8342|8343|8344|8345|8346|8347|8348|8400|8401|8402|8403|8404"
    \o "|8405|8406|8407|8408|8409|8410|8411|8412|8413|8414|8415|8416|8417|8418|8419|8420|8421|8422|8423"
    \o "|8424|8425|8426|8427|8428|8429|8430|8431|8432|11388|11389|11503|11504|11505|11631|11647|11744"
    \o "|11745|11746|11747|11748|11749|11750|11751|11752|11753|11754|11755|11756|11757|11758|11759|11760"
    \o "|11761|11762|11763|11764|11765|11766|11767|11768|11769|11770|11771|11772|11773|11774|11775|11823"
    \o "|12293|12330|12331|12332|12333|12337|12338|12339|12340|12341|12347|12441|12442|12443|12444|12445"
    \o "|12446|12540|12541|12542|40981|42232|42233|42234|42235|42236|42237|42508|42607|42608|42609|42610"
    \o "|42612|42613|42614|42615|42616|42617|42618|42619|42620|42621|42623|42652|42653|42654|42655|42736"
    \o "|42737|42752|42753|42754|42755|42756|42757|42758|42759|42760|42761|42762|42763|42764|42765|42766"
    \o "|42767|42768|42769|42770|42771|42772|42773|42774|42775|42776|42777|42778|42779|42780|42781|42782"
    \o "|42783|42784|42785|42864|42888|42889|42890|42994|42995|42996|43000|43001|43010|43014|43019|43045"
    \o "|43046|43052|43204|43205|43232|43233|43234|43235|43236|43237|43238|43239|43240|43241|43242|43243"
    \o "|43244|43245|43246|43247|43248|43249|43263|43302|43303|43304|43305|43306|43307|43308|43309|43335"
    \o "|43336|43337|43338|43339|43340|43341|43342|43343|43344|43345|43392|43393|43394|43443|43446|43447"
    \o "|43448|43449|43452|43453|43471|43493|43494|43561|43562|43563|43564|43565|43566|43569|43570|43573"
    \o "|43574|43587|43596|43632|43644|43696|43698|43699|43700|43703|43704|43710|43711|43713|43741|43756"
    \o "|43757|43763|43764|43766|43867|43868|43869|43870|43871|43881|43882|43883|44005|44008|44013|64286"
    \o "|64434|64435|64436|64437|64438|64439|64440|64441|64442|64443|64444|64445|64446|64447|64448|64449"
    \o "|64450|65024|65025|65026|65027|65028|65029|65030|65031|65032|65033|65034|65035|65036|65037|65038"
    \o "|65039|65043|65056|65057|65058|65059|65060|65061|65062|65063|65064|65065|65066|65067|65068|65069"
    \o "|65070|65071|65106|65109|65279|65287|65294|65306|65342|65344|65392|65438|65439|65507|65529|65530"
    \o "|65531|66045|66272|66422|66423|66424|66425|66426|67456|67457|67458|67459|67460|67461|67463|67464"
    \o "|67465|67466|67467|67468|67469|67470|67471|67472|67473|67474|67475|67476|67477|67478|67479|67480"
    \o "|67481|67482|67483|67484|67485|67486|67487|67488|67489|67490|67491|67492|67493|67494|67495|67496"
    \o "|67497|67498|67499|67500|67501|67502|67503|67504|67506|67507|67508|67509|67510|67511|67512|67513"
    \o "|67514|68097|68098|68099|68101|68102|68108|68109|68110|68111|68152|68153|68154|68159|68325|68326"
    \o "|68900|68901|68902|68903|69291|69292|69446|69447|69448|69449|69450|69451|69452|69453|69454|69455"
    \o "|69456|69506|69507|69508|69509|69633|69688|69689|69690|69691|69692|69693|69694|69695|69696|69697"
    \o "|69698|69699|69700|69701|69702|69744|69747|69748|69759|69760|69761|69811|69812|69813|69814|69817"
    \o "|69818|69821|69826|69837|69888|69889|69890|69927|69928|69929|69930|69931|69933|69934|69935|69936"
    \o "|69937|69938|69939|69940|70003|70016|70017|70070|70071|70072|70073|70074|70075|70076|70077|70078"
    \o "|70089|70090|70091|70092|70095|70191|70192|70193|70196|70198|70199|70206|70367|70371|70372|70373"
    \o "|70374|70375|70376|70377|70378|70400|70401|70459|70460|70464|70502|70503|70504|70505|70506|70507"
    \o "|70508|70512|70513|70514|70515|70516|70712|70713|70714|70715|70716|70717|70718|70719|70722|70723"
    \o "|70724|70726|70750|70835|70836|70837|70838|70839|70840|70842|70847|70848|70850|70851|71090|71091"
    \o "|71092|71093|71100|71101|71103|71104|71132|71133|71219|71220|71221|71222|71223|71224|71225|71226"
    \o "|71229|71231|71232|71339|71341|71344|71345|71346|71347|71348|71349|71351|71453|71454|71455|71458"
    \o "|71459|71460|71461|71463|71464|71465|71466|71467|71727|71728|71729|71730|71731|71732|71733|71734"
    \o "|71735|71737|71738|71995|71996|71998|72003|72148|72149|72150|72151|72154|72155|72160|72193|72194"
    \o "|72195|72196|72197|72198|72199|72200|72201|72202|72243|72244|72245|72246|72247|72248|72251|72252"
    \o "|72253|72254|72263|72273|72274|72275|72276|72277|72278|72281|72282|72283|72330|72331|72332|72333"
    \o "|72334|72335|72336|72337|72338|72339|72340|72341|72342|72344|72345|72752|72753|72754|72755|72756"
    \o "|72757|72758|72760|72761|72762|72763|72764|72765|72767|72850|72851|72852|72853|72854|72855|72856"
    \o "|72857|72858|72859|72860|72861|72862|72863|72864|72865|72866|72867|72868|72869|72870|72871|72874"
    \o "|72875|72876|72877|72878|72879|72880|72882|72883|72885|72886|73009|73010|73011|73012|73013|73014"
    \o "|73018|73020|73021|73023|73024|73025|73026|73027|73028|73029|73031|73104|73105|73109|73111|73459"
    \o "|73460|78896|78897|78898|78899|78900|78901|78902|78903|78904|92912|92913|92914|92915|92916|92976"
    \o "|92977|92978|92979|92980|92981|92982|92992|92993|92994|92995|94031|94095|94096|94097|94098|94099"
    \o "|94100|94101|94102|94103|94104|94105|94106|94107|94108|94109|94110|94111|94176|94177|94179|94180"
    \o "|110576|110577|110578|110579|110581|110582|110583|110584|110585|110586|110587|110589|110590"
    \o "|113821|113822|113824|113825|113826|113827|118528|118529|118530|118531|118532|118533|118534"
    \o "|118535|118536|118537|118538|118539|118540|118541|118542|118543|118544|118545|118546|118547"
    \o "|118548|118549|118550|118551|118552|118553|118554|118555|118556|118557|118558|118559|118560"
    \o "|118561|118562|118563|118564|118565|118566|118567|118568|118569|118570|118571|118572|118573"
    \o "|118576|118577|118578|118579|118580|118581|118582|118583|118584|118585|118586|118587|118588"
    \o "|118589|118590|118591|118592|118593|118594|118595|118596|118597|118598|119143|119144|119145"
    \o "|119155|119156|119157|119158|119159|119160|119161|119162|119163|119164|119165|119166|119167"
    \o "|119168|119169|119170|119173|119174|119175|119176|119177|119178|119179|119210|119211|119212"
    \o "|119213|119362|119363|119364|121344|121345|121346|121347|121348|121349|121350|121351|121352"
    \o "|121353|121354|121355|121356|121357|121358|121359|121360|121361|121362|121363|121364|121365"
    \o "|121366|121367|121368|121369|121370|121371|121372|121373|121374|121375|121376|121377|121378"
    \o "|121379|121380|121381|121382|121383|121384|121385|121386|121387|121388|121389|121390|121391"
    \o "|121392|121393|121394|121395|121396|121397|121398|121403|121404|121405|121406|121407|121408"
    \o "|121409|121410|121411|121412|121413|121414|121415|121416|121417|121418|121419|121420|121421"
    \o "|121422|121423|121424|121425|121426|121427|121428|121429|121430|121431|121432|121433|121434"
    \o "|121435|121436|121437|121438|121439|121440|121441|121442|121443|121444|121445|121446|121447"
    \o "|121448|121449|121450|121451|121452|121461|121476|121499|121500|121501|121502|121503|121505"
    \o "|121506|121507|121508|121509|121510|121511|121512|121513|121514|121515|121516|121517|121518"
    \o "|121519|122880|122881|122882|122883|122884|122885|122886|122888|122889|122890|122891|122892"
    \o "|122893|122894|122895|122896|122897|122898|122899|122900|122901|122902|122903|122904|122907"
    \o "|122908|122909|122910|122911|122912|122913|122915|122916|122918|122919|122920|122921|122922"
    \o "|123184|123185|123186|123187|123188|123189|123190|123191|123192|123193|123194|123195|123196"
    \o "|123197|123566|123628|123629|123630|123631|125136|125137|125138|125139|125140|125141|125142"
    \o "|125252|125253|125254|125255|125256|125257|125258|125259|127995|127996|127997|127998|127999"
    \o "|917505|917536|917537|917538|917539|917540|917541|917542|917543|917544|917545|917546|917547"
    \o "|917548|917549|917550|917551|917552|917553|917554|917555|917556|917557|917558|917559|917560"
    \o "|917561|917562|917563|917564|917565|917566|917567|917568|917569|917570|917571|917572|917573"
    \o "|917574|917575|917576|917577|917578|917579|917580|917581|917582|917583|917584|917585|917586"
    \o "|917587|917588|917589|917590|917591|917592|917593|917594|917595|917596|917597|917598|917599"
    \o "|917600|917601|917602|917603|917604|917605|917606|917607|917608|917609|917610|917611|917612"
    \o "|917613|917614|917615|917616|917617|917618|917619|917620|917621|917622|917623|917624|917625"
    \o "|917626|917627|917628|917629|917630|917631|917760|917761|917762|917763|917764|917765|917766"
    \o "|917767|917768|917769|917770|917771|917772|917773|917774|917775|917776|917777|917778|917779"
    \o "|917780|917781|917782|917783|917784|917785|917786|917787|917788|917789|917790|917791|917792"
    \o "|917793|917794|917795|917796|917797|917798|917799|917800|917801|917802|917803|917804|917805"
    \o "|917806|917807|917808|917809|917810|917811|917812|917813|917814|917815|917816|917817|917818"
    \o "|917819|917820|917821|917822|917823|917824|917825|917826|917827|917828|917829|917830|917831"
    \o "|917832|917833|917834|917835|917836|917837|917838|917839|917840|917841|917842|917843|917844"
    \o "|917845|917846|917847|917848|917849|917850|917851|917852|917853|917854|917855|917856|917857"
    \o "|917858|917859|917860|917861|917862|917863|917864|917865|917866|917867|917868|917869|917870"
    \o "|917871|917872|917873|917874|917875|917876|917877|917878|917879|917880|917881|917882|917883"
    \o "|917884|917885|917886|917887|917888|917889|917890|917891|917892|917893|917894|917895|917896"
    \o "|917897|917898|917899|917900|917901|917902|917903|917904|917905|917906|917907|917908|917909"
    \o "|917910|917911|917912|917913|917914|917915|917916|917917|917918|917919|917920|917921|917922"
    \o "|917923|917924|917925|917926|917927|917928|917929|917930|917931|917932|917933|917934|917935"
    \o "|917936|917937|917938|917939|917940|917941|917942|917943|917944|917945|917946|917947|917948"
    \o "|917949|917950|917951|917952|917953|917954|917955|917956|917957|917958|917959|917960|917961"
    \o "|917962|917963|917964|917965|917966|917967|917968|917969|917970|917971|917972|917973|917974"
    \o "|917975|917976|917977|917978|917979|917980|917981|917982|917983|917984|917985|917986|917987"
    \o "|917988|917989|917990|917991|917992|917993|917994|917995|917996|917997|917998|917999|"

\* whether the character c is written U+ and its code
IsCode(c) == Len(c) > 2 /\ SubSeq(c, 1, 2) = "U+"

\* `key in text` for two strings
HasText(text, key) ==
  \E i \in 1..(Len(text) - Len(key) + 1) : SubSeq(text, i, i + Len(key) - 1) = key

\* the lower case of one character as one character, which is also what the
\* matching of re.IGNORECASE takes for it
SimpleLower(c) ==
  IF \E i \in 1..26 : UpperCase[i] = c
  THEN LowerCase[CHOOSE i \in 1..26 : UpperCase[i] = c]
  ELSE IF ~IsCode(c) THEN c
  ELSE The({ IF got = <<>> THEN c ELSE Str(got, Len(got)) :
             got \in {Listed(lower_table, "|" \o SubSeq(c, 3, Len(c)) \o "=")} })

\* for the search around a capital sigma: whether a character is one the
\* search passes over, a cased character it stops at, or another
CaseClass(c) ==
  IF c \in AsciiLetters THEN "cased"
  ELSE IF c \in {"'", ".", ":", "^", BT} THEN "ignorable"
  ELSE IF ~IsCode(c) THEN "other"
  ELSE The({ IF HasText(case_ignorable_table, key) THEN "ignorable"
             ELSE IF HasText(cased_table, key) THEN "cased"
             ELSE "other" :
             key \in {"|" \o SubSeq(c, 3, Len(c)) \o "|"} })

\* whether the capital sigma at place i of s ends a word: before it, past the
\* case-ignorable characters, stands a cased character, and after it, past the
\* case-ignorable characters, stands none
FinalSigma(s, i) ==
  The({ LET before == {j \in 1..(i - 1) : class[j] # "ignorable"}
            after == {j \in (i + 1)..Len(s) : class[j] # "ignorable"}
            b == CHOOSE j \in before : \A o \in before : o <= j
            a == CHOOSE j \in after : \A o \in after : j <= o
        IN /\ before # {}
           /\ class[b] = "cased"
           /\ after = {} \/ class[a] # "cased" :
        class \in {[j \in 1..Len(s) |-> CaseClass(s[j])]} })

\* the lower case of the character at place i of s: U+0130 has two characters
\* for it
LowerAt(s, i) ==
  IF s[i] = "U+931"
  THEN IF FinalSigma(s, i) THEN <<"U+962">> ELSE <<"U+963">>
  ELSE IF s[i] = "U+304" THEN <<"i", "U+775">>
  ELSE <<SimpleLower(s[i])>>

\* str.lower()
Lower(s) ==
  The({ IF \A i \in 1..Len(s) : Len(parts[i]) = 1
        THEN [i \in 1..Len(s) |-> parts[i][1]]
        ELSE Join(parts, <<>>) :
        parts \in {[i \in 1..Len(s) |-> LowerAt(s, i)]} })

\* re._casefix._EXTRA_CASES: for a lower-case character the other lower-case
\* characters that re.IGNORECASE takes for the same
EXTRA_CASES ==
  { <<"i", {"U+305"}>>, <<"s", {"U+383"}>>, <<"U+181", {"U+956"}>>, <<"U+305", {"i"}>>,
    <<"U+383", {"s"}>>, <<"U+837", {"U+953", "U+8126"}>>, <<"U+912", {"U+8147"}>>,
    <<"U+944", {"U+8163"}>>, <<"U+946", {"U+976"}>>, <<"U+949", {"U+1013"}>>,
    <<"U+952", {"U+977"}>>, <<"U+953", {"U+837", "U+8126"}>>, <<"U+954", {"U+1008"}>>,
    <<"U+956", {"U+181"}>>, <<"U+960", {"U+982"}>>, <<"U+961", {"U+1009"}>>,
    <<"U+962", {"U+963"}>>, <<"U+963", {"U+962"}>>, <<"U+966", {"U+981"}>>,
    <<"U+976", {"U+946"}>>, <<"U+977", {"U+952"}>>, <<"U+981", {"U+966"}>>,
    <<"U+982", {"U+960"}>>, <<"U+1008", {"U+954"}>>, <<"U+1009", {"U+961"}>>,
    <<"U+1013", {"U+949"}>>, <<"U+1074", {"U+7296"}>>, <<"U+1076", {"U+7297"}>>,
    <<"U+1086", {"U+7298"}>>, <<"U+1089", {"U+7299"}>>,
    <<"U+1090", {"U+7300", "U+7301"}>>, <<"U+1098", {"U+7302"}>>,
    <<"U+1123", {"U+7303"}>>, <<"U+7296", {"U+1074"}>>, <<"U+7297", {"U+1076"}>>,
    <<"U+7298", {"U+1086"}>>, <<"U+7299", {"U+1089"}>>,
    <<"U+7300", {"U+1090", "U+7301"}>>, <<"U+7301", {"U+1090", "U+7300"}>>,
    <<"U+7302", {"U+1098"}>>, <<"U+7303", {"U+1123"}>>, <<"U+7304", {"U+42571"}>>,
    <<"U+7777", {"U+7835"}>>, <<"U+7835", {"U+7777"}>>, <<"U+8126", {"U+837", "U+953"}>>,
    <<"U+8147", {"U+912"}>>, <<"U+8163", {"U+944"}>>, <<"U+42571", {"U+7304"}>>,
    <<"U+64261", {"U+64262"}>>, <<"U+64262", {"U+64261"}>> }

\* whether re.IGNORECASE lets the character p of a pattern match the character
\* c: the lower case of c is that of p or one of its extra cases.  The
\* letters of the patterns are of ASCII, and their other characters are the
\* lower case of themselves only.
SameLetter(p, c) ==
  The({ low[2] = low[1] \/ \E e \in EXTRA_CASES : e[1] = low[1] /\ low[2] \in e[2] :
        low \in {[k \in 1..2 |-> SimpleLower(<<p, c>>[k])]} })

\* the characters from U+0080 on whose lower case is the character t
Lowered(t) ==
  The({ LET hits == {i \in 1..(Len(lower_table) - Len(key) + 1) :
                      SubSeq(lower_table, i, i + Len(key) - 1) = key}
            bar(i) == CHOOSE b \in (IF i > 8 THEN i - 8 ELSE 1)..(i - 1) :
                        /\ SubSeq(lower_table, b, b) = "|"
                        /\ \A q \in (b + 1)..(i - 1) : SubSeq(lower_table, q, q) # "|"
        IN {"U+" \o SubSeq(lower_table, bar(i) + 1, i - 1) : i \in hits} :
        key \in {"=" \o t \o "|"} })

\* the characters SameLetter(p, c) holds of, which a pattern compiled with
\* re.IGNORECASE has in the place of its character p
Letters(p) ==
  The({ UNION { {t} \cup {UpperCase[i] : i \in {i \in 1..26 : LowerCase[i] = t}}
                  \cup Lowered(t) :
                t \in {lp} \cup UNION {e[2] : e \in {e \in EXTRA_CASES : e[1] = lp}} } :
        lp \in {SimpleLower(p)} })

---------------------------------------------------------------------------
(* Regular expressions, matched as Python's re module matches them.       *)
(* A pattern is a sequence of items: a literal text, a character class    *)
(* with its repetition, the two ends of capture group 1, and the anchors  *)
(* ^ and $.  ml is re.MULTILINE.  Backtracking tries the repetition       *)
(* counts in Python's order, so the match found is the match Python       *)
(* finds.                                                                  *)

One(cs) == <<Cls(cs, FALSE, 1, 1, FALSE)>>
Opt(cs) == <<Cls(cs, FALSE, 0, 1, FALSE)>>
Star(cs) == <<Cls(cs, FALSE, 0, -1, FALSE)>>
Plus(cs) == <<Cls(cs, FALSE, 1, -1, FALSE)>>
NotStar(cs) == <<Cls(cs, TRUE, 0, -1, FALSE)>>
NotPlus(cs) == <<Cls(cs, TRUE, 1, -1, FALSE)>>
NotStarLazy(cs) == <<Cls(cs, TRUE, 0, -1, TRUE)>>
Rep(cs, lo, hi) == <<Cls(cs, FALSE, lo, hi, FALSE)>>
\* .*? and .* without re.DOTALL, and with it
DotStarLazy == NotStarLazy({"\n"})
DotStar == NotStar({"\n"})
AnyStarLazy == NotStarLazy({})
AnyStar == NotStar({})
GOpen == <<[k |-> "("]>>
GClose == <<[k |-> ")"]>>
Bol == <<[k |-> "^"]>>
Eol == <<[k |-> "$"]>>
Lit(s) == <<[k |-> "s", s |-> s]>>
\* (a|b|...): one of the texts alts, tried in their order; with re.IGNORECASE
\* (ci) each place of a text holds the characters taken for its letter
Alt(alts) == <<[k |-> "a", alts |-> alts, ci |-> FALSE]>>
AltCI(alts) ==
  <<[k |-> "a",
     alts |-> [j \in 1..Len(alts) |-> [q \in 1..Len(alts[j]) |-> Letters(alts[j][q])]],
     ci |-> TRUE]>>
Re(items) == [items |-> items, ml |-> FALSE]
ReM(items) == [items |-> items, ml |-> TRUE]

NoMatch == [ok |-> FALSE, b |-> 0, e |-> 0, gs |-> 0, ge |-> 0]

\* how many characters from position i on the class item can take
RunLen(it, s, i) ==
  LET top == IF it.hi >= 0 /\ i + it.hi - 1 < Len(s) THEN i + it.hi - 1 ELSE Len(s)
  IN FirstMiss(it, s, i, top) - i

AtBol(re, s, i) == i = 1 \/ (re.ml /\ s[i - 1] = "\n")
AtEol(re, s, i) ==
  \/ i = Len(s) + 1
  \/ i = Len(s) /\ s[i] = "\n"
  \/ re.ml /\ i <= Len(s) /\ s[i] = "\n"

RECURSIVE MatchAt(_, _, _, _, _, _)
RECURSIVE TryCounts(_, _, _, _, _, _, _, _, _)
RECURSIVE TryAlts(_, _, _, _, _, _, _)
\* the match of items k.. of re at position i of s
MatchAt(re, k, s, i, gs, ge) ==
  IF k > Len(re.items)
  THEN [ok |-> TRUE, b |-> 0, e |-> i, gs |-> gs, ge |-> ge]
  ELSE LET it == re.items[k]
       IN CASE it.k = "(" -> MatchAt(re, k + 1, s, i, i, ge)
            [] it.k = ")" -> MatchAt(re, k + 1, s, i, gs, i)
            [] it.k = "^" ->
                 IF AtBol(re, s, i) THEN MatchAt(re, k + 1, s, i, gs, ge)
                 ELSE NoMatch
            [] it.k = "$" ->
                 IF AtEol(re, s, i) THEN MatchAt(re, k + 1, s, i, gs, ge)
                 ELSE NoMatch
            [] it.k = "s" ->
                 IF i + Len(it.s) - 1 <= Len(s)
                    /\ SubSeq(s, i, i + Len(it.s) - 1) = it.s
                 THEN MatchAt(re, k + 1, s, i + Len(it.s), gs, ge)
                 ELSE NoMatch
            [] it.k = "a" -> TryAlts(re, k, s, i, gs, ge, 1)
            [] OTHER ->
                 LET run == RunLen(it, s, i)
                 IN IF run < it.lo THEN NoMatch
                    ELSE TryCounts(re, k, s, i, gs, ge, it.lo, run, it.lazy)

\* the first count in lo..hi, taken upwards when lazy and downwards when greedy,
\* with which the rest of the pattern matches; rs holds the match of the rest
\* after each count
TryCounts(re, k, s, i, gs, ge, lo, hi, lazy) ==
  LET n == hi - lo + 1
      rs == [j \in 1..n |-> MatchAt(re, k + 1, s, i + lo + j - 1, gs, ge)] \o <<>>
  IN IF \A j \in 1..n : ~rs[j].ok THEN NoMatch
     ELSE IF lazy
          THEN rs[CHOOSE j \in 1..n : rs[j].ok /\ \A q \in 1..(j - 1) : ~rs[q].ok]
          ELSE rs[CHOOSE j \in 1..n : rs[j].ok /\ \A q \in (j + 1)..n : ~rs[q].ok]

\* the first alternative from the j-th on that is at position i and with which
\* the rest of the pattern matches
TryAlts(re, k, s, i, gs, ge, j) ==
  LET it == re.items[k]
  IN IF j > Len(it.alts) THEN NoMatch
     ELSE LET a == it.alts[j]
              here == /\ i + Len(a) - 1 <= Len(s)
                      /\ IF it.ci
                         THEN \A q \in 1..Len(a) : s[i + q - 1] \in a[q]
                         ELSE SubSeq(s, i, i + Len(a) - 1) = a
              r == IF here THEN MatchAt(re, k + 1, s, i + Len(a), gs, ge)
                   ELSE NoMatch
          IN IF r.ok THEN r ELSE TryAlts(re, k, s, i, gs, ge, j + 1)

\* re.match(re, s)
ReMatch(re, s) == MatchAt(re, 1, s, 1, 0, 0).ok

\* the match of re at each position of s, the place after its end included
Matches(re, s) ==
  [i \in 1..(Len(s) + 1) |-> [MatchAt(re, 1, s, i, 0, 0) EXCEPT !.b = i]] \o <<>>

\* the leftmost match of re in s that starts at position i or later
SearchFrom(re, s, i) ==
  LET ms == Matches(re, s)
      n == Len(ms)
  IN IF \A j \in i..n : ~ms[j].ok THEN NoMatch
     ELSE ms[CHOOSE j \in i..n : ms[j].ok /\ \A q \in i..(j - 1) : ~ms[q].ok]

\* re.search(re, s) is not None
ReSearch(re, s) == SearchFrom(re, s, 1).ok

\* a replacement text: pre, then group 1 when g, then post
Rp(pre, g, post) == [pre |-> pre, g |-> g, post |-> post]
RpEmpty == Rp(<<>>, FALSE, <<>>)
RpGroup == Rp(<<>>, TRUE, <<>>)
Expand(rp, s, m) ==
  rp.pre \o (IF rp.g THEN SubSeq(s, m.gs, m.ge - 1) ELSE <<>>) \o rp.post

RECURSIVE SubRange(_, _, _, _, _, _)
\* the scan of re.sub over the positions lo..hi of s, when the scan stands at
\* position at: the text put out for the characters from at on, and where the
\* scan stands afterwards.  ms holds the match at each position.  A position
\* before at lies in a match already replaced.
SubRange(ms, rp, s, lo, hi, at) ==
  IF hi < at \/ lo > hi THEN [out |-> <<>>, at |-> at]
  ELSE IF lo = hi
       THEN LET m == ms[lo]
                ch == IF lo <= Len(s) THEN <<s[lo]>> ELSE <<>>
            IN IF ~m.ok THEN [out |-> ch, at |-> lo + 1]
               ELSE IF m.e = lo
                    THEN [out |-> Expand(rp, s, m) \o ch, at |-> lo + 1]
                    ELSE [out |-> Expand(rp, s, m), at |-> m.e]
       ELSE LET q == (hi - lo) \div 4 + 1
                upto(x) == IF x < hi THEN x ELSE hi
                a == SubRange(ms, rp, s, lo, lo + q - 1, at)
                b == SubRange(ms, rp, s, lo + q, upto(lo + 2 * q - 1), a.at)
                c == SubRange(ms, rp, s, lo + 2 * q, upto(lo + 3 * q - 1), b.at)
                d == SubRange(ms, rp, s, lo + 3 * q, hi, c.at)
            IN [out |-> a.out \o b.out \o c.out \o d.out, at |-> d.at]

\* re.sub(re, rp, s)
ReSub(re, rp, s) ==
  LET ms == Matches(re, s)
  IN SubRange(ms, rp, s, 1, Len(ms), 1).out

\* re.sub(re, rp, s, count=1)
ReSubOnce(re, rp, s) ==
  LET m == SearchFrom(re, s, 1)
  IN IF ~m.ok THEN s
     ELSE SubSeq(s, 1, m.b - 1) \o Expand(rp, s, m) \o From(s, m.e)

RECURSIVE CountRange(_, _, _, _)
\* the matches re.findall finds at the positions lo..hi when the scan stands at
\* position at, and where the scan stands afterwards
CountRange(ms, lo, hi, at) ==
  IF hi < at \/ lo > hi THEN [n |-> 0, at |-> at]
  ELSE IF lo = hi
       THEN IF ~ms[lo].ok THEN [n |-> 0, at |-> lo + 1]
            ELSE [n |-> 1, at |-> IF ms[lo].e = lo THEN lo + 1 ELSE ms[lo].e]
       ELSE LET mid == (lo + hi) \div 2
                l == CountRange(ms, lo, mid, at)
                r == CountRange(ms, mid + 1, hi, l.at)
            IN [n |-> l.n + r.n, at |-> r.at]

\* len(re.findall(re, s))
ReCount(re, s) ==
  LET ms == Matches(re, s)
  IN CountRange(ms, 1, Len(ms), 1).n

\* str.replace(old, new)
Replace(s, old, new) == ReSub(Re(Lit(old)), Rp(new, FALSE, <<>>), s)

RECURSIVE ApplySubs(_, _, _, _)
\* the substitutions lo..hi of subs, each a pattern and its replacement,
\* applied to s in their order (the test on t has TLC compute the text of the
\* first half before it starts on the second)
ApplySubs(subs, lo, hi, s) ==
  IF lo > hi THEN s
  ELSE IF lo = hi THEN ReSub(subs[lo][1], subs[lo][2], s)
       ELSE LET mid == (lo + hi) \div 2
                t == ApplySubs(subs, lo, mid, s)
            IN IF Len(t) >= 0 THEN ApplySubs(subs, mid + 1, hi, t) ELSE t

\* a run of re.sub calls, each on the result of the one before
SubAll(subs, s) == ApplySubs(subs, 1, Len(subs), s)

---------------------------------------------------------------------------
(* The record format *)

MinLineLen == 3
NavMaxLen == 30
SubstanceLen == 20
MinWords == 3
SepDetect == 10
SepLen == 80

SourcePrefix == Chars("Source URL:")
FinalPrefix == Chars("Final URL:")
\* '=' * 10, the mark the passes look for, and '=' * 80, the line they write
SepMark == Repeat("=", SepDetect)
SepLine == Repeat("=", SepLen)
NL == <<"\n">>

\* what f.read() and f.readlines() give for the characters of a file opened
\* with open(file_path, 'r'): the text mode reads every "\r\n" and every
\* "\r" left as "\n"
ReadText(bytes) ==
  IF \A i \in 1..Len(bytes) : bytes[i] # "\r" THEN bytes
  ELSE Replace(Replace(bytes, Chars("\r\n"), NL), Chars("\r"), NL)

IsUrlLine(line) == StartsWith(line, SourcePrefix) \/ StartsWith(line, FinalPrefix)

---------------------------------------------------------------------------
(* extract_substance.py *)

\* the loop over the lines that collects the URL lines and stops at the first
\* separator: the URL lines met (right-stripped when rstrip), and the index of
\* the first body line (1 when no separator is found, as body_start stays 0)
ScanHeader(lines, rstrip) ==
  LET stops == {i \in 1..Len(lines) :
                  ~IsUrlLine(lines[i]) /\ Contains(lines[i], SepMark)}
      stop == IF stops = {} THEN Len(lines) + 1
              ELSE CHOOSE i \in stops : \A j \in stops : i <= j
      urls == SelectSeq(SubSeq(lines, 1, stop - 1), IsUrlLine)
  IN [meta |-> [i \in 1..Len(urls) |-> IF rstrip THEN RStrip(urls[i]) ELSE urls[i]],
      body |-> IF stops = {} THEN 1 ELSE stop + 1]

PureSymbolRe == Re(Bol \o Plus(WS \cup {"[", "]", "-", "*", "(", ")"}) \o Eol)

nav_words ==
  { Chars("menu"), Chars("navigation"), Chars("breadcrumb"), Chars("sidebar"),
    Chars("footer"), Chars("advertisement"), Chars("subscribe"),
    Chars("follow us"), Chars("contact us"), Chars("cookie"), Chars("privacy"),
    Chars("terms"), Chars("sign in"), Chars("log in") }

HasNavWord(stripped) == \E w \in nav_words : Contains(Lower(stripped), w)

LinkRe == Re(Lit(Chars("[")) \o GOpen \o NotPlus({"]"}) \o GClose
             \o Lit(Chars("](")) \o NotStar({")"}) \o Lit(Chars(")")))
ImageRe == Re(Lit(Chars("![")) \o DotStarLazy \o Lit(Chars("]("))
              \o NotStar({")"}) \o Lit(Chars(")")))
BoldRe == Re(Lit(Chars("**")) \o GOpen \o NotPlus({"*"}) \o GClose
             \o Lit(Chars("**")))
UBoldRe == Re(Lit(Chars("__")) \o GOpen \o NotPlus({"_"}) \o GClose
              \o Lit(Chars("__")))

\* the drop rules without the rule for the lines of fewer than three characters
LooseDropAnyLength(stripped) ==
  \/ stripped = <<>>
  \/ ReMatch(PureSymbolRe, stripped)
  \/ HasNavWord(stripped) /\ Len(stripped) < NavMaxLen

\* the drop rules of the loop body, in the order of the code
LooseDrop(stripped) ==
  \/ stripped = <<>>
  \/ Len(stripped) < MinLineLen
  \/ ReMatch(PureSymbolRe, stripped)
  \/ HasNavWord(stripped) /\ Len(stripped) < NavMaxLen

\* the keep rule with the length taken from 20 on
LooseSubstanceFromTwenty(stripped) ==
  \/ \E c \in {".", "!", "?", "#", BT} : \E i \in 1..Len(stripped) : stripped[i] = c
  \/ Len(stripped) >= SubstanceLen

\* the keep rule
LooseSubstance(stripped) ==
  \/ \E c \in {".", "!", "?", "#", BT} : \E i \in 1..Len(stripped) : stripped[i] = c
  \/ Len(stripped) > SubstanceLen

LooseKeep(stripped) == ~LooseDrop(stripped) /\ LooseSubstance(stripped)

\* the markdown cleanup of a kept line
LooseClean(stripped) ==
  SubAll(<< <<LinkRe, RpGroup>>, <<ImageRe, RpEmpty>>, <<BoldRe, RpGroup>>,
            <<UBoldRe, RpGroup>> >>, stripped)

\* content_lines: the kept lines of the body, stripped and cleaned
LooseFilter(body) ==
  LET stripped == [i \in 1..Len(body) |-> Strip(body[i])]
      kept == SelectSeq(stripped, LooseKeep)
  IN [i \in 1..Len(kept) |-> LooseClean(kept[i])]

\* the file extract_substance writes
Reconstruct(meta, body_lines) ==
  Join(meta, NL) \o NL \o SepLine \o NL \o NL \o Join(body_lines, NL)

extract_substance(content) ==
  LET lines == ReadLines(ReadText(content))
      h == ScanHeader(lines, TRUE)
  IN Reconstruct(h.meta, LooseFilter(From(lines, h.body)))

---------------------------------------------------------------------------
(* final_extract.py *)

LetterRe == Re(One(AsciiLetters))
SymbolRe == Re(One({")", "("}) \o Lit(Chars("{}[]")) \o Plus({"]"}))

strict_words ==
  { Chars("linkedin"), Chars("reddit"), Chars("facebook"), Chars("twitter"),
    Chars("email"), Chars("subscribe"), Chars("sign in"), Chars("log in"),
    Chars("manage cookies"), Chars("privacy"), Chars("cookie"),
    Chars("terms of use") }

HasStrictWord(line) == \E w \in strict_words : Contains(Lower(line), w)
HasUrl(line) == Contains(line, Chars("http")) /\ Contains(line, Chars("://"))
SymbolDominated(line) == 2 * ReCount(SymbolRe, line) > NumWords(line)

\* is_real_sentence asking for more than three words
is_real_sentence_four_words(line) ==
  /\ ReSearch(LetterRe, line)
  /\ ~(NumWords(line) <= MinWords)
  /\ ~HasStrictWord(line)
  /\ ~HasUrl(line)
  /\ ~SymbolDominated(line)

is_real_sentence(line) ==
  /\ ReSearch(LetterRe, line)
  /\ ~(NumWords(line) < MinWords)
  /\ ~HasStrictWord(line)
  /\ ~HasUrl(line)
  /\ ~SymbolDominated(line)

StrictTooShort(stripped) == stripped = <<>> \/ Len(stripped) < MinLineLen
StrictHeading(stripped) == StartsWith(stripped, Chars("#"))
StrictCode(stripped) ==
  \/ Contains(stripped, <<BT, BT, BT>>)
  \/ StartsWith(stripped, Chars("def "))
  \/ StartsWith(stripped, Chars("class "))

StrictKeep(stripped) ==
  /\ ~StrictTooShort(stripped)
  /\ (StrictHeading(stripped) \/ StrictCode(stripped) \/ is_real_sentence(stripped))

\* what a kept line is appended as: headings and code as they are, sentences
\* with the links and images cleaned
StrictClean(stripped) ==
  IF StrictHeading(stripped) \/ StrictCode(stripped) THEN stripped
  ELSE SubAll(<< <<LinkRe, RpGroup>>, <<ImageRe, RpEmpty>> >>, stripped)

StrictFilter(body) ==
  LET stripped == [i \in 1..Len(body) |-> Strip(body[i])]
      kept == SelectSeq(stripped, StrictKeep)
  IN [i \in 1..Len(kept) |-> StrictClean(kept[i])]

final_extract(content) ==
  LET lines == ReadLines(ReadText(content))
      h == ScanHeader(lines, TRUE)
  IN Reconstruct(h.meta, StrictFilter(From(lines, h.body)))

---------------------------------------------------------------------------
(* cleanup_nav.py *)

\* the alternatives of the three nav_patterns; the first pattern wants a colon
\* after its alternative
nav_heads_colon ==
  { Chars("Research areas"), Chars("People"), Chars("Microsoft"), Chars("Labs"),
    Chars("Other"), Chars("Tech"), Chars("Industries"), Chars("Search"),
    Chars("Global") }
nav_heads ==
  { Chars("Search"), Chars("Tech"), Chars("Industries"), Chars("Global"),
    Chars("Partners"), Chars("Resources"),
    Chars("Home"), Chars("About"), Chars("Contact"), Chars("Careers"),
    Chars("Events") }

\* any(re.match(pattern, line) for pattern in nav_patterns)
IsNavLine(line) ==
  \/ \E h \in nav_heads_colon :
       ReMatch(Re(Bol \o Lit(h) \o Lit(Chars(":")) \o DotStar \o Eol), line)
  \/ \E h \in nav_heads :
       ReMatch(Re(Bol \o Lit(h) \o DotStar \o Eol), line)

IsBlank(line) == Strip(line) = <<>>
NotNavLine(line) == ~IsNavLine(line)

\* the two while loops that pop the blank lines at both ends
TrimBlankLines(lines) ==
  LET solid == {i \in 1..Len(lines) : ~IsBlank(lines[i])}
  IN IF solid = {} THEN <<>>
     ELSE SubSeq(lines,
                 CHOOSE i \in solid : \A j \in solid : i <= j,
                 CHOOSE i \in solid : \A j \in solid : i >= j)

cleanup_file(content) ==
  LET lines == SplitLines(ReadText(content))
      h == ScanHeader(lines, FALSE)
      cleaned == SelectSeq(From(lines, h.body), NotNavLine)
  IN Reconstruct(h.meta, TrimBlankLines(cleaned))

---------------------------------------------------------------------------
(* polish_files.py *)

\* header_lines: two past the last line that looks like a header line, 0-based,
\* which is the number of lines kept as the header; 0 when no line does
PolishHeaderLines(lines) ==
  LET hs == {i \in 1..Len(lines) :
               IsUrlLine(lines[i]) \/ Contains(lines[i], SepMark)}
  IN IF hs = {} THEN 0 ELSE (CHOOSE i \in hs : \A j \in hs : i >= j) + 1

PImageRe == Re(Lit(Chars("![")) \o DotStarLazy \o Lit(Chars("]("))
               \o DotStarLazy \o Lit(Chars(")")))
ItalicRe == Re(Lit(Chars("*")) \o GOpen \o NotPlus({"*"}) \o GClose
               \o Lit(Chars("*")))
UItalicRe == Re(Lit(Chars("_")) \o GOpen \o NotPlus({"_"}) \o GClose
                \o Lit(Chars("_")))
CodeRe == Re(Lit(<<BT>>) \o GOpen \o NotPlus({BT}) \o GClose \o Lit(<<BT>>))
OrphanRe == ReM(Bol \o Lit(Chars("](")))
TableRe == ReM(Bol \o Lit(Chars("|")) \o Eol)
RuleRe == ReM(Bol \o Lit(Chars("---")) \o Eol)
EmptyHeadRe == ReM(Bol \o Plus({"#"}) \o Star(WS) \o Eol)
SpacesRe == Re(Plus({" "}))
BlankRunRe == Re(Lit(NL) \o Star(WS) \o Lit(NL) \o Star(WS) \o Lit(NL)
                 \o Star(WS) \o Plus({"\n"}))
RpSpace == Rp(Chars(" "), FALSE, <<>>)
RpTwoNL == Rp(NL \o NL, FALSE, <<>>)

\* the markdown substitutions of the body, in the order of the code
PolishMarkdown(body) ==
  SubAll(<< <<PImageRe, RpEmpty>>, <<LinkRe, RpGroup>>, <<BoldRe, RpGroup>>,
            <<UBoldRe, RpGroup>>, <<ItalicRe, RpGroup>>, <<UItalicRe, RpGroup>>,
            <<CodeRe, RpGroup>> >>, body)

\* the stray remnants
PolishRemnants(body) ==
  SubAll(<< <<OrphanRe, RpEmpty>>, <<TableRe, RpEmpty>>, <<RuleRe, RpEmpty>>,
            <<EmptyHeadRe, RpEmpty>> >>, body)

\* the white space
PolishSpace(body) ==
  Strip(SubAll(<< <<SpacesRe, RpSpace>>, <<BlankRunRe, RpTwoNL>> >>, body))

polish_file(content) ==
  LET lines == SplitLines(ReadText(content))
      n == PolishHeaderLines(lines)
      hl == IF n > Len(lines) THEN Len(lines) ELSE n
      metadata == Join(SubSeq(lines, 1, hl), NL)
      body == Join(From(lines, hl + 1), NL)
  IN RStrip(metadata) \o NL \o NL
       \o PolishSpace(PolishRemnants(PolishMarkdown(body)))

---------------------------------------------------------------------------
(* html.unescape, which aggressive_clean.py imports and the parser calls *)

\* the printable characters of ASCII from the space on, in the order of their
\* codes; the place of the backquote holds a space
Printable ==
  Chars(" !\"#$%&'()*+,-./0123456789:;<=>?@ABCDEFGHIJKLMNOPQRSTUVWXYZ[\\]^_ abcdefghijklmnopqrstuvwxyz{|}~")

\* chr(num): a character outside ASCII is written U+ and its code
CodeChar(num) ==
  IF num = 96 THEN BT
  ELSE IF num >= 32 /\ num <= 126 THEN Printable[num - 31]
  ELSE IF num = 9 THEN "\t"
  ELSE IF num = 10 THEN "\n"
  ELSE IF num = 12 THEN "\f"
  ELSE IF num = 13 THEN "\r"
  ELSE IF num = 65533 THEN Replacement
  ELSE "U+" \o ToString(num)

\* html.entities.html5, the names of the character references and their
\* characters: for each first letter its names in order, each written
\* |name=code| or |name=code,code| with the codes of its characters
html5 ==
  [
    A |-> "|AElig=198|AElig;=198|AMP=38|AMP;=38|Aacute=193|Aacute;=193|Abreve;=258|Acirc=194|"
          \o "Acirc;=194|Acy;=1040|Afr;=120068|Agrave=192|Agrave;=192|Alpha;=913|Amacr;=256|"
          \o "And;=10835|Aogon;=260|Aopf;=120120|ApplyFunction;=8289|Aring=197|Aring;=197|"
          \o "Ascr;=119964|Assign;=8788|Atilde=195|Atilde;=195|Auml=196|Auml;=196|",
    B |-> "|Backslash;=8726|Barv;=10983|Barwed;=8966|Bcy;=1041|Because;=8757|Bernoullis;=8492|"
          \o "Beta;=914|Bfr;=120069|Bopf;=120121|Breve;=728|Bscr;=8492|Bumpeq;=8782|",
    C |-> "|CHcy;=1063|COPY=169|COPY;=169|Cacute;=262|Cap;=8914|CapitalDifferentialD;=8517|"
          \o "Cayleys;=8493|Ccaron;=268|Ccedil=199|Ccedil;=199|Ccirc;=264|Cconint;=8752|Cdot;=266|"
          \o "Cedilla;=184|CenterDot;=183|Cfr;=8493|Chi;=935|CircleDot;=8857|CircleMinus;=8854|"
          \o "CirclePlus;=8853|CircleTimes;=8855|ClockwiseContourIntegral;=8754|"
          \o "CloseCurlyDoubleQuote;=8221|CloseCurlyQuote;=8217|Colon;=8759|Colone;=10868|"
          \o "Congruent;=8801|Conint;=8751|ContourIntegral;=8750|Copf;=8450|Coproduct;=8720|"
          \o "CounterClockwiseContourIntegral;=8755|Cross;=10799|Cscr;=119966|Cup;=8915|"
          \o "CupCap;=8781|",
    D |-> "|DD;=8517|DDotrahd;=10513|DJcy;=1026|DScy;=1029|DZcy;=1039|Dagger;=8225|Darr;=8609|"
          \o "Dashv;=10980|Dcaron;=270|Dcy;=1044|Del;=8711|Delta;=916|Dfr;=120071|"
          \o "DiacriticalAcute;=180|DiacriticalDot;=729|DiacriticalDoubleAcute;=733|"
          \o "DiacriticalGrave;=96|DiacriticalTilde;=732|Diamond;=8900|DifferentialD;=8518|"
          \o "Dopf;=120123|Dot;=168|DotDot;=8412|DotEqual;=8784|DoubleContourIntegral;=8751|"
          \o "DoubleDot;=168|DoubleDownArrow;=8659|DoubleLeftArrow;=8656|"
          \o "DoubleLeftRightArrow;=8660|DoubleLeftTee;=10980|DoubleLongLeftArrow;=10232|"
          \o "DoubleLongLeftRightArrow;=10234|DoubleLongRightArrow;=10233|DoubleRightArrow;=8658|"
          \o "DoubleRightTee;=8872|DoubleUpArrow;=8657|DoubleUpDownArrow;=8661|"
          \o "DoubleVerticalBar;=8741|DownArrow;=8595|DownArrowBar;=10515|DownArrowUpArrow;=8693|"
          \o "DownBreve;=785|DownLeftRightVector;=10576|DownLeftTeeVector;=10590|"
          \o "DownLeftVector;=8637|DownLeftVectorBar;=10582|DownRightTeeVector;=10591|"
          \o "DownRightVector;=8641|DownRightVectorBar;=10583|DownTee;=8868|DownTeeArrow;=8615|"
          \o "Downarrow;=8659|Dscr;=119967|Dstrok;=272|",
    E |-> "|ENG;=330|ETH=208|ETH;=208|Eacute=201|Eacute;=201|Ecaron;=282|Ecirc=202|Ecirc;=202|"
          \o "Ecy;=1069|Edot;=278|Efr;=120072|Egrave=200|Egrave;=200|Element;=8712|Emacr;=274|"
          \o "EmptySmallSquare;=9723|EmptyVerySmallSquare;=9643|Eogon;=280|Eopf;=120124|"
          \o "Epsilon;=917|Equal;=10869|EqualTilde;=8770|Equilibrium;=8652|Escr;=8496|Esim;=10867|"
          \o "Eta;=919|Euml=203|Euml;=203|Exists;=8707|ExponentialE;=8519|",
    F |-> "|Fcy;=1060|Ffr;=120073|FilledSmallSquare;=9724|FilledVerySmallSquare;=9642|"
          \o "Fopf;=120125|ForAll;=8704|Fouriertrf;=8497|Fscr;=8497|",
    G |-> "|GJcy;=1027|GT=62|GT;=62|Gamma;=915|Gammad;=988|Gbreve;=286|Gcedil;=290|Gcirc;=284|"
          \o "Gcy;=1043|Gdot;=288|Gfr;=120074|Gg;=8921|Gopf;=120126|GreaterEqual;=8805|"
          \o "GreaterEqualLess;=8923|GreaterFullEqual;=8807|GreaterGreater;=10914|"
          \o "GreaterLess;=8823|GreaterSlantEqual;=10878|GreaterTilde;=8819|Gscr;=119970|Gt;=8811|",
    H |-> "|HARDcy;=1066|Hacek;=711|Hat;=94|Hcirc;=292|Hfr;=8460|HilbertSpace;=8459|Hopf;=8461|"
          \o "HorizontalLine;=9472|Hscr;=8459|Hstrok;=294|HumpDownHump;=8782|HumpEqual;=8783|",
    I |-> "|IEcy;=1045|IJlig;=306|IOcy;=1025|Iacute=205|Iacute;=205|Icirc=206|Icirc;=206|"
          \o "Icy;=1048|Idot;=304|Ifr;=8465|Igrave=204|Igrave;=204|Im;=8465|Imacr;=298|"
          \o "ImaginaryI;=8520|Implies;=8658|Int;=8748|Integral;=8747|Intersection;=8898|"
          \o "InvisibleComma;=8291|InvisibleTimes;=8290|Iogon;=302|Iopf;=120128|Iota;=921|"
          \o "Iscr;=8464|Itilde;=296|Iukcy;=1030|Iuml=207|Iuml;=207|",
    J |-> "|Jcirc;=308|Jcy;=1049|Jfr;=120077|Jopf;=120129|Jscr;=119973|Jsercy;=1032|"
          \o "Jukcy;=1028|",
    K |-> "|KHcy;=1061|KJcy;=1036|Kappa;=922|Kcedil;=310|Kcy;=1050|Kfr;=120078|Kopf;=120130|"
          \o "Kscr;=119974|",
    L |-> "|LJcy;=1033|LT=60|LT;=60|Lacute;=313|Lambda;=923|Lang;=10218|Laplacetrf;=8466|"
          \o "Larr;=8606|Lcaron;=317|Lcedil;=315|Lcy;=1051|LeftAngleBracket;=10216|"
          \o "LeftArrow;=8592|LeftArrowBar;=8676|LeftArrowRightArrow;=8646|LeftCeiling;=8968|"
          \o "LeftDoubleBracket;=10214|LeftDownTeeVector;=10593|LeftDownVector;=8643|"
          \o "LeftDownVectorBar;=10585|LeftFloor;=8970|LeftRightArrow;=8596|"
          \o "LeftRightVector;=10574|LeftTee;=8867|LeftTeeArrow;=8612|LeftTeeVector;=10586|"
          \o "LeftTriangle;=8882|LeftTriangleBar;=10703|LeftTriangleEqual;=8884|"
          \o "LeftUpDownVector;=10577|LeftUpTeeVector;=10592|LeftUpVector;=8639|"
          \o "LeftUpVectorBar;=10584|LeftVector;=8636|LeftVectorBar;=10578|Leftarrow;=8656|"
          \o "Leftrightarrow;=8660|LessEqualGreater;=8922|LessFullEqual;=8806|LessGreater;=8822|"
          \o "LessLess;=10913|LessSlantEqual;=10877|LessTilde;=8818|Lfr;=120079|Ll;=8920|"
          \o "Lleftarrow;=8666|Lmidot;=319|LongLeftArrow;=10229|LongLeftRightArrow;=10231|"
          \o "LongRightArrow;=10230|Longleftarrow;=10232|Longleftrightarrow;=10234|"
          \o "Longrightarrow;=10233|Lopf;=120131|LowerLeftArrow;=8601|LowerRightArrow;=8600|"
          \o "Lscr;=8466|Lsh;=8624|Lstrok;=321|Lt;=8810|",
    M |-> "|Map;=10501|Mcy;=1052|MediumSpace;=8287|Mellintrf;=8499|Mfr;=120080|MinusPlus;=8723|"
          \o "Mopf;=120132|Mscr;=8499|Mu;=924|",
    N |-> "|NJcy;=1034|Nacute;=323|Ncaron;=327|Ncedil;=325|Ncy;=1053|NegativeMediumSpace;=8203|"
          \o "NegativeThickSpace;=8203|NegativeThinSpace;=8203|NegativeVeryThinSpace;=8203|"
          \o "NestedGreaterGreater;=8811|NestedLessLess;=8810|NewLine;=10|Nfr;=120081|"
          \o "NoBreak;=8288|NonBreakingSpace;=160|Nopf;=8469|Not;=10988|NotCongruent;=8802|"
          \o "NotCupCap;=8813|NotDoubleVerticalBar;=8742|NotElement;=8713|NotEqual;=8800|"
          \o "NotEqualTilde;=8770,824|NotExists;=8708|NotGreater;=8815|NotGreaterEqual;=8817|"
          \o "NotGreaterFullEqual;=8807,824|NotGreaterGreater;=8811,824|NotGreaterLess;=8825|"
          \o "NotGreaterSlantEqual;=10878,824|NotGreaterTilde;=8821|NotHumpDownHump;=8782,824|"
          \o "NotHumpEqual;=8783,824|NotLeftTriangle;=8938|NotLeftTriangleBar;=10703,824|"
          \o "NotLeftTriangleEqual;=8940|NotLess;=8814|NotLessEqual;=8816|NotLessGreater;=8824|"
          \o "NotLessLess;=8810,824|NotLessSlantEqual;=10877,824|NotLessTilde;=8820|"
          \o "NotNestedGreaterGreater;=10914,824|NotNestedLessLess;=10913,824|NotPrecedes;=8832|"
          \o "NotPrecedesEqual;=10927,824|NotPrecedesSlantEqual;=8928|NotReverseElement;=8716|"
          \o "NotRightTriangle;=8939|NotRightTriangleBar;=10704,824|NotRightTriangleEqual;=8941|"
          \o "NotSquareSubset;=8847,824|NotSquareSubsetEqual;=8930|NotSquareSuperset;=8848,824|"
          \o "NotSquareSupersetEqual;=8931|NotSubset;=8834,8402|NotSubsetEqual;=8840|"
          \o "NotSucceeds;=8833|NotSucceedsEqual;=10928,824|NotSucceedsSlantEqual;=8929|"
          \o "NotSucceedsTilde;=8831,824|NotSuperset;=8835,8402|NotSupersetEqual;=8841|"
          \o "NotTilde;=8769|NotTildeEqual;=8772|NotTildeFullEqual;=8775|NotTildeTilde;=8777|"
          \o "NotVerticalBar;=8740|Nscr;=119977|Ntilde=209|Ntilde;=209|Nu;=925|",
    O |-> "|OElig;=338|Oacute=211|Oacute;=211|Ocirc=212|Ocirc;=212|Ocy;=1054|Odblac;=336|"
          \o "Ofr;=120082|Ograve=210|Ograve;=210|Omacr;=332|Omega;=937|Omicron;=927|Oopf;=120134|"
          \o "OpenCurlyDoubleQuote;=8220|OpenCurlyQuote;=8216|Or;=10836|Oscr;=119978|Oslash=216|"
          \o "Oslash;=216|Otilde=213|Otilde;=213|Otimes;=10807|Ouml=214|Ouml;=214|OverBar;=8254|"
          \o "OverBrace;=9182|OverBracket;=9140|OverParenthesis;=9180|",
    P |-> "|PartialD;=8706|Pcy;=1055|Pfr;=120083|Phi;=934|Pi;=928|PlusMinus;=177|"
          \o "Poincareplane;=8460|Popf;=8473|Pr;=10939|Precedes;=8826|PrecedesEqual;=10927|"
          \o "PrecedesSlantEqual;=8828|PrecedesTilde;=8830|Prime;=8243|Product;=8719|"
          \o "Proportion;=8759|Proportional;=8733|Pscr;=119979|Psi;=936|",
    Q |-> "|QUOT=34|QUOT;=34|Qfr;=120084|Qopf;=8474|Qscr;=119980|",
    R |-> "|RBarr;=10512|REG=174|REG;=174|Racute;=340|Rang;=10219|Rarr;=8608|Rarrtl;=10518|"
          \o "Rcaron;=344|Rcedil;=342|Rcy;=1056|Re;=8476|ReverseElement;=8715|"
          \o "ReverseEquilibrium;=8651|ReverseUpEquilibrium;=10607|Rfr;=8476|Rho;=929|"
          \o "RightAngleBracket;=10217|RightArrow;=8594|RightArrowBar;=8677|"
          \o "RightArrowLeftArrow;=8644|RightCeiling;=8969|RightDoubleBracket;=10215|"
          \o "RightDownTeeVector;=10589|RightDownVector;=8642|RightDownVectorBar;=10581|"
          \o "RightFloor;=8971|RightTee;=8866|RightTeeArrow;=8614|RightTeeVector;=10587|"
          \o "RightTriangle;=8883|RightTriangleBar;=10704|RightTriangleEqual;=8885|"
          \o "RightUpDownVector;=10575|RightUpTeeVector;=10588|RightUpVector;=8638|"
          \o "RightUpVectorBar;=10580|RightVector;=8640|RightVectorBar;=10579|Rightarrow;=8658|"
          \o "Ropf;=8477|RoundImplies;=10608|Rrightarrow;=8667|Rscr;=8475|Rsh;=8625|"
          \o "RuleDelayed;=10740|",
    S |-> "|SHCHcy;=1065|SHcy;=1064|SOFTcy;=1068|Sacute;=346|Sc;=10940|Scaron;=352|Scedil;=350|"
          \o "Scirc;=348|Scy;=1057|Sfr;=120086|ShortDownArrow;=8595|ShortLeftArrow;=8592|"
          \o "ShortRightArrow;=8594|ShortUpArrow;=8593|Sigma;=931|SmallCircle;=8728|Sopf;=120138|"
          \o "Sqrt;=8730|Square;=9633|SquareIntersection;=8851|SquareSubset;=8847|"
          \o "SquareSubsetEqual;=8849|SquareSuperset;=8848|SquareSupersetEqual;=8850|"
          \o "SquareUnion;=8852|Sscr;=119982|Star;=8902|Sub;=8912|Subset;=8912|SubsetEqual;=8838|"
          \o "Succeeds;=8827|SucceedsEqual;=10928|SucceedsSlantEqual;=8829|SucceedsTilde;=8831|"
          \o "SuchThat;=8715|Sum;=8721|Sup;=8913|Superset;=8835|SupersetEqual;=8839|Supset;=8913|",
    T |-> "|THORN=222|THORN;=222|TRADE;=8482|TSHcy;=1035|TScy;=1062|Tab;=9|Tau;=932|"
          \o "Tcaron;=356|Tcedil;=354|Tcy;=1058|Tfr;=120087|Therefore;=8756|Theta;=920|"
          \o "ThickSpace;=8287,8202|ThinSpace;=8201|Tilde;=8764|TildeEqual;=8771|"
          \o "TildeFullEqual;=8773|TildeTilde;=8776|Topf;=120139|TripleDot;=8411|Tscr;=119983|"
          \o "Tstrok;=358|",
    U |-> "|Uacute=218|Uacute;=218|Uarr;=8607|Uarrocir;=10569|Ubrcy;=1038|Ubreve;=364|"
          \o "Ucirc=219|Ucirc;=219|Ucy;=1059|Udblac;=368|Ufr;=120088|Ugrave=217|Ugrave;=217|"
          \o "Umacr;=362|UnderBar;=95|UnderBrace;=9183|UnderBracket;=9141|UnderParenthesis;=9181|"
          \o "Union;=8899|UnionPlus;=8846|Uogon;=370|Uopf;=120140|UpArrow;=8593|UpArrowBar;=10514|"
          \o "UpArrowDownArrow;=8645|UpDownArrow;=8597|UpEquilibrium;=10606|UpTee;=8869|"
          \o "UpTeeArrow;=8613|Uparrow;=8657|Updownarrow;=8661|UpperLeftArrow;=8598|"
          \o "UpperRightArrow;=8599|Upsi;=978|Upsilon;=933|Uring;=366|Uscr;=119984|Utilde;=360|"
          \o "Uuml=220|Uuml;=220|",
    V |-> "|VDash;=8875|Vbar;=10987|Vcy;=1042|Vdash;=8873|Vdashl;=10982|Vee;=8897|Verbar;=8214|"
          \o "Vert;=8214|VerticalBar;=8739|VerticalLine;=124|VerticalSeparator;=10072|"
          \o "VerticalTilde;=8768|VeryThinSpace;=8202|Vfr;=120089|Vopf;=120141|Vscr;=119985|"
          \o "Vvdash;=8874|",
    W |-> "|Wcirc;=372|Wedge;=8896|Wfr;=120090|Wopf;=120142|Wscr;=119986|",
    X |-> "|Xfr;=120091|Xi;=926|Xopf;=120143|Xscr;=119987|",
    Y |-> "|YAcy;=1071|YIcy;=1031|YUcy;=1070|Yacute=221|Yacute;=221|Ycirc;=374|Ycy;=1067|"
          \o "Yfr;=120092|Yopf;=120144|Yscr;=119988|Yuml;=376|",
    Z |-> "|ZHcy;=1046|Zacute;=377|Zcaron;=381|Zcy;=1047|Zdot;=379|ZeroWidthSpace;=8203|"
          \o "Zeta;=918|Zfr;=8488|Zopf;=8484|Zscr;=119989|",
    a |-> "|aacute=225|aacute;=225|abreve;=259|ac;=8766|acE;=8766,819|acd;=8767|acirc=226|"
          \o "acirc;=226|acute=180|acute;=180|acy;=1072|aelig=230|aelig;=230|af;=8289|afr;=120094|"
          \o "agrave=224|agrave;=224|alefsym;=8501|aleph;=8501|alpha;=945|amacr;=257|amalg;=10815|"
          \o "amp=38|amp;=38|and;=8743|andand;=10837|andd;=10844|andslope;=10840|andv;=10842|"
          \o "ang;=8736|ange;=10660|angle;=8736|angmsd;=8737|angmsdaa;=10664|angmsdab;=10665|"
          \o "angmsdac;=10666|angmsdad;=10667|angmsdae;=10668|angmsdaf;=10669|angmsdag;=10670|"
          \o "angmsdah;=10671|angrt;=8735|angrtvb;=8894|angrtvbd;=10653|angsph;=8738|angst;=197|"
          \o "angzarr;=9084|aogon;=261|aopf;=120146|ap;=8776|apE;=10864|apacir;=10863|ape;=8778|"
          \o "apid;=8779|apos;=39|approx;=8776|approxeq;=8778|aring=229|aring;=229|ascr;=119990|"
          \o "ast;=42|asymp;=8776|asympeq;=8781|atilde=227|atilde;=227|auml=228|auml;=228|"
          \o "awconint;=8755|awint;=10769|",
    b |-> "|bNot;=10989|backcong;=8780|backepsilon;=1014|backprime;=8245|backsim;=8765|"
          \o "backsimeq;=8909|barvee;=8893|barwed;=8965|barwedge;=8965|bbrk;=9141|bbrktbrk;=9142|"
          \o "bcong;=8780|bcy;=1073|bdquo;=8222|becaus;=8757|because;=8757|bemptyv;=10672|"
          \o "bepsi;=1014|bernou;=8492|beta;=946|beth;=8502|between;=8812|bfr;=120095|"
          \o "bigcap;=8898|bigcirc;=9711|bigcup;=8899|bigodot;=10752|bigoplus;=10753|"
          \o "bigotimes;=10754|bigsqcup;=10758|bigstar;=9733|bigtriangledown;=9661|"
          \o "bigtriangleup;=9651|biguplus;=10756|bigvee;=8897|bigwedge;=8896|bkarow;=10509|"
          \o "blacklozenge;=10731|blacksquare;=9642|blacktriangle;=9652|blacktriangledown;=9662|"
          \o "blacktriangleleft;=9666|blacktriangleright;=9656|blank;=9251|blk12;=9618|"
          \o "blk14;=9617|blk34;=9619|block;=9608|bne;=61,8421|bnequiv;=8801,8421|bnot;=8976|"
          \o "bopf;=120147|bot;=8869|bottom;=8869|bowtie;=8904|boxDL;=9559|boxDR;=9556|"
          \o "boxDl;=9558|boxDr;=9555|boxH;=9552|boxHD;=9574|boxHU;=9577|boxHd;=9572|boxHu;=9575|"
          \o "boxUL;=9565|boxUR;=9562|boxUl;=9564|boxUr;=9561|boxV;=9553|boxVH;=9580|boxVL;=9571|"
          \o "boxVR;=9568|boxVh;=9579|boxVl;=9570|boxVr;=9567|boxbox;=10697|boxdL;=9557|"
          \o "boxdR;=9554|boxdl;=9488|boxdr;=9484|boxh;=9472|boxhD;=9573|boxhU;=9576|boxhd;=9516|"
          \o "boxhu;=9524|boxminus;=8863|boxplus;=8862|boxtimes;=8864|boxuL;=9563|boxuR;=9560|"
          \o "boxul;=9496|boxur;=9492|boxv;=9474|boxvH;=9578|boxvL;=9569|boxvR;=9566|boxvh;=9532|"
          \o "boxvl;=9508|boxvr;=9500|bprime;=8245|breve;=728|brvbar=166|brvbar;=166|bscr;=119991|"
          \o "bsemi;=8271|bsim;=8765|bsime;=8909|bsol;=92|bsolb;=10693|bsolhsub;=10184|bull;=8226|"
          \o "bullet;=8226|bump;=8782|bumpE;=10926|bumpe;=8783|bumpeq;=8783|",
    c |-> "|cacute;=263|cap;=8745|capand;=10820|capbrcup;=10825|capcap;=10827|capcup;=10823|"
          \o "capdot;=10816|caps;=8745,65024|caret;=8257|caron;=711|ccaps;=10829|ccaron;=269|"
          \o "ccedil=231|ccedil;=231|ccirc;=265|ccups;=10828|ccupssm;=10832|cdot;=267|cedil=184|"
          \o "cedil;=184|cemptyv;=10674|cent=162|cent;=162|centerdot;=183|cfr;=120096|chcy;=1095|"
          \o "check;=10003|checkmark;=10003|chi;=967|cir;=9675|cirE;=10691|circ;=710|circeq;=8791|"
          \o "circlearrowleft;=8634|circlearrowright;=8635|circledR;=174|circledS;=9416|"
          \o "circledast;=8859|circledcirc;=8858|circleddash;=8861|cire;=8791|cirfnint;=10768|"
          \o "cirmid;=10991|cirscir;=10690|clubs;=9827|clubsuit;=9827|colon;=58|colone;=8788|"
          \o "coloneq;=8788|comma;=44|commat;=64|comp;=8705|compfn;=8728|complement;=8705|"
          \o "complexes;=8450|cong;=8773|congdot;=10861|conint;=8750|copf;=120148|coprod;=8720|"
          \o "copy=169|copy;=169|copysr;=8471|crarr;=8629|cross;=10007|cscr;=119992|csub;=10959|"
          \o "csube;=10961|csup;=10960|csupe;=10962|ctdot;=8943|cudarrl;=10552|cudarrr;=10549|"
          \o "cuepr;=8926|cuesc;=8927|cularr;=8630|cularrp;=10557|cup;=8746|cupbrcap;=10824|"
          \o "cupcap;=10822|cupcup;=10826|cupdot;=8845|cupor;=10821|cups;=8746,65024|curarr;=8631|"
          \o "curarrm;=10556|curlyeqprec;=8926|curlyeqsucc;=8927|curlyvee;=8910|curlywedge;=8911|"
          \o "curren=164|curren;=164|curvearrowleft;=8630|curvearrowright;=8631|cuvee;=8910|"
          \o "cuwed;=8911|cwconint;=8754|cwint;=8753|cylcty;=9005|",
    d |-> "|dArr;=8659|dHar;=10597|dagger;=8224|daleth;=8504|darr;=8595|dash;=8208|dashv;=8867|"
          \o "dbkarow;=10511|dblac;=733|dcaron;=271|dcy;=1076|dd;=8518|ddagger;=8225|ddarr;=8650|"
          \o "ddotseq;=10871|deg=176|deg;=176|delta;=948|demptyv;=10673|dfisht;=10623|dfr;=120097|"
          \o "dharl;=8643|dharr;=8642|diam;=8900|diamond;=8900|diamondsuit;=9830|diams;=9830|"
          \o "die;=168|digamma;=989|disin;=8946|div;=247|divide=247|divide;=247|"
          \o "divideontimes;=8903|divonx;=8903|djcy;=1106|dlcorn;=8990|dlcrop;=8973|dollar;=36|"
          \o "dopf;=120149|dot;=729|doteq;=8784|doteqdot;=8785|dotminus;=8760|dotplus;=8724|"
          \o "dotsquare;=8865|doublebarwedge;=8966|downarrow;=8595|downdownarrows;=8650|"
          \o "downharpoonleft;=8643|downharpoonright;=8642|drbkarow;=10512|drcorn;=8991|"
          \o "drcrop;=8972|dscr;=119993|dscy;=1109|dsol;=10742|dstrok;=273|dtdot;=8945|dtri;=9663|"
          \o "dtrif;=9662|duarr;=8693|duhar;=10607|dwangle;=10662|dzcy;=1119|dzigrarr;=10239|",
    e |-> "|eDDot;=10871|eDot;=8785|eacute=233|eacute;=233|easter;=10862|ecaron;=283|"
          \o "ecir;=8790|ecirc=234|ecirc;=234|ecolon;=8789|ecy;=1101|edot;=279|ee;=8519|"
          \o "efDot;=8786|efr;=120098|eg;=10906|egrave=232|egrave;=232|egs;=10902|egsdot;=10904|"
          \o "el;=10905|elinters;=9191|ell;=8467|els;=10901|elsdot;=10903|emacr;=275|empty;=8709|"
          \o "emptyset;=8709|emptyv;=8709|emsp13;=8196|emsp14;=8197|emsp;=8195|eng;=331|"
          \o "ensp;=8194|eogon;=281|eopf;=120150|epar;=8917|eparsl;=10723|eplus;=10865|epsi;=949|"
          \o "epsilon;=949|epsiv;=1013|eqcirc;=8790|eqcolon;=8789|eqsim;=8770|eqslantgtr;=10902|"
          \o "eqslantless;=10901|equals;=61|equest;=8799|equiv;=8801|equivDD;=10872|"
          \o "eqvparsl;=10725|erDot;=8787|erarr;=10609|escr;=8495|esdot;=8784|esim;=8770|eta;=951|"
          \o "eth=240|eth;=240|euml=235|euml;=235|euro;=8364|excl;=33|exist;=8707|"
          \o "expectation;=8496|exponentiale;=8519|",
    f |-> "|fallingdotseq;=8786|fcy;=1092|female;=9792|ffilig;=64259|fflig;=64256|"
          \o "ffllig;=64260|ffr;=120099|filig;=64257|fjlig;=102,106|flat;=9837|fllig;=64258|"
          \o "fltns;=9649|fnof;=402|fopf;=120151|forall;=8704|fork;=8916|forkv;=10969|"
          \o "fpartint;=10765|frac12=189|frac12;=189|frac13;=8531|frac14=188|frac14;=188|"
          \o "frac15;=8533|frac16;=8537|frac18;=8539|frac23;=8532|frac25;=8534|frac34=190|"
          \o "frac34;=190|frac35;=8535|frac38;=8540|frac45;=8536|frac56;=8538|frac58;=8541|"
          \o "frac78;=8542|frasl;=8260|frown;=8994|fscr;=119995|",
    g |-> "|gE;=8807|gEl;=10892|gacute;=501|gamma;=947|gammad;=989|gap;=10886|gbreve;=287|"
          \o "gcirc;=285|gcy;=1075|gdot;=289|ge;=8805|gel;=8923|geq;=8805|geqq;=8807|"
          \o "geqslant;=10878|ges;=10878|gescc;=10921|gesdot;=10880|gesdoto;=10882|"
          \o "gesdotol;=10884|gesl;=8923,65024|gesles;=10900|gfr;=120100|gg;=8811|ggg;=8921|"
          \o "gimel;=8503|gjcy;=1107|gl;=8823|glE;=10898|gla;=10917|glj;=10916|gnE;=8809|"
          \o "gnap;=10890|gnapprox;=10890|gne;=10888|gneq;=10888|gneqq;=8809|gnsim;=8935|"
          \o "gopf;=120152|grave;=96|gscr;=8458|gsim;=8819|gsime;=10894|gsiml;=10896|gt=62|gt;=62|"
          \o "gtcc;=10919|gtcir;=10874|gtdot;=8919|gtlPar;=10645|gtquest;=10876|gtrapprox;=10886|"
          \o "gtrarr;=10616|gtrdot;=8919|gtreqless;=8923|gtreqqless;=10892|gtrless;=8823|"
          \o "gtrsim;=8819|gvertneqq;=8809,65024|gvnE;=8809,65024|",
    h |-> "|hArr;=8660|hairsp;=8202|half;=189|hamilt;=8459|hardcy;=1098|harr;=8596|"
          \o "harrcir;=10568|harrw;=8621|hbar;=8463|hcirc;=293|hearts;=9829|heartsuit;=9829|"
          \o "hellip;=8230|hercon;=8889|hfr;=120101|hksearow;=10533|hkswarow;=10534|hoarr;=8703|"
          \o "homtht;=8763|hookleftarrow;=8617|hookrightarrow;=8618|hopf;=120153|horbar;=8213|"
          \o "hscr;=119997|hslash;=8463|hstrok;=295|hybull;=8259|hyphen;=8208|",
    i |-> "|iacute=237|iacute;=237|ic;=8291|icirc=238|icirc;=238|icy;=1080|iecy;=1077|"
          \o "iexcl=161|iexcl;=161|iff;=8660|ifr;=120102|igrave=236|igrave;=236|ii;=8520|"
          \o "iiiint;=10764|iiint;=8749|iinfin;=10716|iiota;=8489|ijlig;=307|imacr;=299|"
          \o "image;=8465|imagline;=8464|imagpart;=8465|imath;=305|imof;=8887|imped;=437|in;=8712|"
          \o "incare;=8453|infin;=8734|infintie;=10717|inodot;=305|int;=8747|intcal;=8890|"
          \o "integers;=8484|intercal;=8890|intlarhk;=10775|intprod;=10812|iocy;=1105|iogon;=303|"
          \o "iopf;=120154|iota;=953|iprod;=10812|iquest=191|iquest;=191|iscr;=119998|isin;=8712|"
          \o "isinE;=8953|isindot;=8949|isins;=8948|isinsv;=8947|isinv;=8712|it;=8290|itilde;=297|"
          \o "iukcy;=1110|iuml=239|iuml;=239|",
    j |-> "|jcirc;=309|jcy;=1081|jfr;=120103|jmath;=567|jopf;=120155|jscr;=119999|jsercy;=1112|"
          \o "jukcy;=1108|",
    k |-> "|kappa;=954|kappav;=1008|kcedil;=311|kcy;=1082|kfr;=120104|kgreen;=312|khcy;=1093|"
          \o "kjcy;=1116|kopf;=120156|kscr;=120000|",
    l |-> "|lAarr;=8666|lArr;=8656|lAtail;=10523|lBarr;=10510|lE;=8806|lEg;=10891|lHar;=10594|"
          \o "lacute;=314|laemptyv;=10676|lagran;=8466|lambda;=955|lang;=10216|langd;=10641|"
          \o "langle;=10216|lap;=10885|laquo=171|laquo;=171|larr;=8592|larrb;=8676|larrbfs;=10527|"
          \o "larrfs;=10525|larrhk;=8617|larrlp;=8619|larrpl;=10553|larrsim;=10611|larrtl;=8610|"
          \o "lat;=10923|latail;=10521|late;=10925|lates;=10925,65024|lbarr;=10508|lbbrk;=10098|"
          \o "lbrace;=123|lbrack;=91|lbrke;=10635|lbrksld;=10639|lbrkslu;=10637|lcaron;=318|"
          \o "lcedil;=316|lceil;=8968|lcub;=123|lcy;=1083|ldca;=10550|ldquo;=8220|ldquor;=8222|"
          \o "ldrdhar;=10599|ldrushar;=10571|ldsh;=8626|le;=8804|leftarrow;=8592|"
          \o "leftarrowtail;=8610|leftharpoondown;=8637|leftharpoonup;=8636|leftleftarrows;=8647|"
          \o "leftrightarrow;=8596|leftrightarrows;=8646|leftrightharpoons;=8651|"
          \o "leftrightsquigarrow;=8621|leftthreetimes;=8907|leg;=8922|leq;=8804|leqq;=8806|"
          \o "leqslant;=10877|les;=10877|lescc;=10920|lesdot;=10879|lesdoto;=10881|"
          \o "lesdotor;=10883|lesg;=8922,65024|lesges;=10899|lessapprox;=10885|lessdot;=8918|"
          \o "lesseqgtr;=8922|lesseqqgtr;=10891|lessgtr;=8822|lesssim;=8818|lfisht;=10620|"
          \o "lfloor;=8970|lfr;=120105|lg;=8822|lgE;=10897|lhard;=8637|lharu;=8636|lharul;=10602|"
          \o "lhblk;=9604|ljcy;=1113|ll;=8810|llarr;=8647|llcorner;=8990|llhard;=10603|"
          \o "lltri;=9722|lmidot;=320|lmoust;=9136|lmoustache;=9136|lnE;=8808|lnap;=10889|"
          \o "lnapprox;=10889|lne;=10887|lneq;=10887|lneqq;=8808|lnsim;=8934|loang;=10220|"
          \o "loarr;=8701|lobrk;=10214|longleftarrow;=10229|longleftrightarrow;=10231|"
          \o "longmapsto;=10236|longrightarrow;=10230|looparrowleft;=8619|looparrowright;=8620|"
          \o "lopar;=10629|lopf;=120157|loplus;=10797|lotimes;=10804|lowast;=8727|lowbar;=95|"
          \o "loz;=9674|lozenge;=9674|lozf;=10731|lpar;=40|lparlt;=10643|lrarr;=8646|"
          \o "lrcorner;=8991|lrhar;=8651|lrhard;=10605|lrm;=8206|lrtri;=8895|lsaquo;=8249|"
          \o "lscr;=120001|lsh;=8624|lsim;=8818|lsime;=10893|lsimg;=10895|lsqb;=91|lsquo;=8216|"
          \o "lsquor;=8218|lstrok;=322|lt=60|lt;=60|ltcc;=10918|ltcir;=10873|ltdot;=8918|"
          \o "lthree;=8907|ltimes;=8905|ltlarr;=10614|ltquest;=10875|ltrPar;=10646|ltri;=9667|"
          \o "ltrie;=8884|ltrif;=9666|lurdshar;=10570|luruhar;=10598|lvertneqq;=8808,65024|"
          \o "lvnE;=8808,65024|",
    m |-> "|mDDot;=8762|macr=175|macr;=175|male;=9794|malt;=10016|maltese;=10016|map;=8614|"
          \o "mapsto;=8614|mapstodown;=8615|mapstoleft;=8612|mapstoup;=8613|marker;=9646|"
          \o "mcomma;=10793|mcy;=1084|mdash;=8212|measuredangle;=8737|mfr;=120106|mho;=8487|"
          \o "micro=181|micro;=181|mid;=8739|midast;=42|midcir;=10992|middot=183|middot;=183|"
          \o "minus;=8722|minusb;=8863|minusd;=8760|minusdu;=10794|mlcp;=10971|mldr;=8230|"
          \o "mnplus;=8723|models;=8871|mopf;=120158|mp;=8723|mscr;=120002|mstpos;=8766|mu;=956|"
          \o "multimap;=8888|mumap;=8888|",
    n |-> "|nGg;=8921,824|nGt;=8811,8402|nGtv;=8811,824|nLeftarrow;=8653|nLeftrightarrow;=8654|"
          \o "nLl;=8920,824|nLt;=8810,8402|nLtv;=8810,824|nRightarrow;=8655|nVDash;=8879|"
          \o "nVdash;=8878|nabla;=8711|nacute;=324|nang;=8736,8402|nap;=8777|napE;=10864,824|"
          \o "napid;=8779,824|napos;=329|napprox;=8777|natur;=9838|natural;=9838|naturals;=8469|"
          \o "nbsp=160|nbsp;=160|nbump;=8782,824|nbumpe;=8783,824|ncap;=10819|ncaron;=328|"
          \o "ncedil;=326|ncong;=8775|ncongdot;=10861,824|ncup;=10818|ncy;=1085|ndash;=8211|"
          \o "ne;=8800|neArr;=8663|nearhk;=10532|nearr;=8599|nearrow;=8599|nedot;=8784,824|"
          \o "nequiv;=8802|nesear;=10536|nesim;=8770,824|nexist;=8708|nexists;=8708|nfr;=120107|"
          \o "ngE;=8807,824|nge;=8817|ngeq;=8817|ngeqq;=8807,824|ngeqslant;=10878,824|"
          \o "nges;=10878,824|ngsim;=8821|ngt;=8815|ngtr;=8815|nhArr;=8654|nharr;=8622|"
          \o "nhpar;=10994|ni;=8715|nis;=8956|nisd;=8954|niv;=8715|njcy;=1114|nlArr;=8653|"
          \o "nlE;=8806,824|nlarr;=8602|nldr;=8229|nle;=8816|nleftarrow;=8602|"
          \o "nleftrightarrow;=8622|nleq;=8816|nleqq;=8806,824|nleqslant;=10877,824|"
          \o "nles;=10877,824|nless;=8814|nlsim;=8820|nlt;=8814|nltri;=8938|nltrie;=8940|"
          \o "nmid;=8740|nopf;=120159|not=172|not;=172|notin;=8713|notinE;=8953,824|"
          \o "notindot;=8949,824|notinva;=8713|notinvb;=8951|notinvc;=8950|notni;=8716|"
          \o "notniva;=8716|notnivb;=8958|notnivc;=8957|npar;=8742|nparallel;=8742|"
          \o "nparsl;=11005,8421|npart;=8706,824|npolint;=10772|npr;=8832|nprcue;=8928|"
          \o "npre;=10927,824|nprec;=8832|npreceq;=10927,824|nrArr;=8655|nrarr;=8603|"
          \o "nrarrc;=10547,824|nrarrw;=8605,824|nrightarrow;=8603|nrtri;=8939|nrtrie;=8941|"
          \o "nsc;=8833|nsccue;=8929|nsce;=10928,824|nscr;=120003|nshortmid;=8740|"
          \o "nshortparallel;=8742|nsim;=8769|nsime;=8772|nsimeq;=8772|nsmid;=8740|nspar;=8742|"
          \o "nsqsube;=8930|nsqsupe;=8931|nsub;=8836|nsubE;=10949,824|nsube;=8840|"
          \o "nsubset;=8834,8402|nsubseteq;=8840|nsubseteqq;=10949,824|nsucc;=8833|"
          \o "nsucceq;=10928,824|nsup;=8837|nsupE;=10950,824|nsupe;=8841|nsupset;=8835,8402|"
          \o "nsupseteq;=8841|nsupseteqq;=10950,824|ntgl;=8825|ntilde=241|ntilde;=241|ntlg;=8824|"
          \o "ntriangleleft;=8938|ntrianglelefteq;=8940|ntriangleright;=8939|"
          \o "ntrianglerighteq;=8941|nu;=957|num;=35|numero;=8470|numsp;=8199|nvDash;=8877|"
          \o "nvHarr;=10500|nvap;=8781,8402|nvdash;=8876|nvge;=8805,8402|nvgt;=62,8402|"
          \o "nvinfin;=10718|nvlArr;=10498|nvle;=8804,8402|nvlt;=60,8402|nvltrie;=8884,8402|"
          \o "nvrArr;=10499|nvrtrie;=8885,8402|nvsim;=8764,8402|nwArr;=8662|nwarhk;=10531|"
          \o "nwarr;=8598|nwarrow;=8598|nwnear;=10535|",
    o |-> "|oS;=9416|oacute=243|oacute;=243|oast;=8859|ocir;=8858|ocirc=244|ocirc;=244|"
          \o "ocy;=1086|odash;=8861|odblac;=337|odiv;=10808|odot;=8857|odsold;=10684|oelig;=339|"
          \o "ofcir;=10687|ofr;=120108|ogon;=731|ograve=242|ograve;=242|ogt;=10689|ohbar;=10677|"
          \o "ohm;=937|oint;=8750|olarr;=8634|olcir;=10686|olcross;=10683|oline;=8254|olt;=10688|"
          \o "omacr;=333|omega;=969|omicron;=959|omid;=10678|ominus;=8854|oopf;=120160|"
          \o "opar;=10679|operp;=10681|oplus;=8853|or;=8744|orarr;=8635|ord;=10845|order;=8500|"
          \o "orderof;=8500|ordf=170|ordf;=170|ordm=186|ordm;=186|origof;=8886|oror;=10838|"
          \o "orslope;=10839|orv;=10843|oscr;=8500|oslash=248|oslash;=248|osol;=8856|otilde=245|"
          \o "otilde;=245|otimes;=8855|otimesas;=10806|ouml=246|ouml;=246|ovbar;=9021|",
    p |-> "|par;=8741|para=182|para;=182|parallel;=8741|parsim;=10995|parsl;=11005|part;=8706|"
          \o "pcy;=1087|percnt;=37|period;=46|permil;=8240|perp;=8869|pertenk;=8241|pfr;=120109|"
          \o "phi;=966|phiv;=981|phmmat;=8499|phone;=9742|pi;=960|pitchfork;=8916|piv;=982|"
          \o "planck;=8463|planckh;=8462|plankv;=8463|plus;=43|plusacir;=10787|plusb;=8862|"
          \o "pluscir;=10786|plusdo;=8724|plusdu;=10789|pluse;=10866|plusmn=177|plusmn;=177|"
          \o "plussim;=10790|plustwo;=10791|pm;=177|pointint;=10773|popf;=120161|pound=163|"
          \o "pound;=163|pr;=8826|prE;=10931|prap;=10935|prcue;=8828|pre;=10927|prec;=8826|"
          \o "precapprox;=10935|preccurlyeq;=8828|preceq;=10927|precnapprox;=10937|"
          \o "precneqq;=10933|precnsim;=8936|precsim;=8830|prime;=8242|primes;=8473|prnE;=10933|"
          \o "prnap;=10937|prnsim;=8936|prod;=8719|profalar;=9006|profline;=8978|profsurf;=8979|"
          \o "prop;=8733|propto;=8733|prsim;=8830|prurel;=8880|pscr;=120005|psi;=968|puncsp;=8200|",
    q |-> "|qfr;=120110|qint;=10764|qopf;=120162|qprime;=8279|qscr;=120006|quaternions;=8461|"
          \o "quatint;=10774|quest;=63|questeq;=8799|quot=34|quot;=34|",
    r |-> "|rAarr;=8667|rArr;=8658|rAtail;=10524|rBarr;=10511|rHar;=10596|race;=8765,817|"
          \o "racute;=341|radic;=8730|raemptyv;=10675|rang;=10217|rangd;=10642|range;=10661|"
          \o "rangle;=10217|raquo=187|raquo;=187|rarr;=8594|rarrap;=10613|rarrb;=8677|"
          \o "rarrbfs;=10528|rarrc;=10547|rarrfs;=10526|rarrhk;=8618|rarrlp;=8620|rarrpl;=10565|"
          \o "rarrsim;=10612|rarrtl;=8611|rarrw;=8605|ratail;=10522|ratio;=8758|rationals;=8474|"
          \o "rbarr;=10509|rbbrk;=10099|rbrace;=125|rbrack;=93|rbrke;=10636|rbrksld;=10638|"
          \o "rbrkslu;=10640|rcaron;=345|rcedil;=343|rceil;=8969|rcub;=125|rcy;=1088|rdca;=10551|"
          \o "rdldhar;=10601|rdquo;=8221|rdquor;=8221|rdsh;=8627|real;=8476|realine;=8475|"
          \o "realpart;=8476|reals;=8477|rect;=9645|reg=174|reg;=174|rfisht;=10621|rfloor;=8971|"
          \o "rfr;=120111|rhard;=8641|rharu;=8640|rharul;=10604|rho;=961|rhov;=1009|"
          \o "rightarrow;=8594|rightarrowtail;=8611|rightharpoondown;=8641|rightharpoonup;=8640|"
          \o "rightleftarrows;=8644|rightleftharpoons;=8652|rightrightarrows;=8649|"
          \o "rightsquigarrow;=8605|rightthreetimes;=8908|ring;=730|risingdotseq;=8787|"
          \o "rlarr;=8644|rlhar;=8652|rlm;=8207|rmoust;=9137|rmoustache;=9137|rnmid;=10990|"
          \o "roang;=10221|roarr;=8702|robrk;=10215|ropar;=10630|ropf;=120163|roplus;=10798|"
          \o "rotimes;=10805|rpar;=41|rpargt;=10644|rppolint;=10770|rrarr;=8649|rsaquo;=8250|"
          \o "rscr;=120007|rsh;=8625|rsqb;=93|rsquo;=8217|rsquor;=8217|rthree;=8908|rtimes;=8906|"
          \o "rtri;=9657|rtrie;=8885|rtrif;=9656|rtriltri;=10702|ruluhar;=10600|rx;=8478|",
    s |-> "|sacute;=347|sbquo;=8218|sc;=8827|scE;=10932|scap;=10936|scaron;=353|sccue;=8829|"
          \o "sce;=10928|scedil;=351|scirc;=349|scnE;=10934|scnap;=10938|scnsim;=8937|"
          \o "scpolint;=10771|scsim;=8831|scy;=1089|sdot;=8901|sdotb;=8865|sdote;=10854|"
          \o "seArr;=8664|searhk;=10533|searr;=8600|searrow;=8600|sect=167|sect;=167|semi;=59|"
          \o "seswar;=10537|setminus;=8726|setmn;=8726|sext;=10038|sfr;=120112|sfrown;=8994|"
          \o "sharp;=9839|shchcy;=1097|shcy;=1096|shortmid;=8739|shortparallel;=8741|shy=173|"
          \o "shy;=173|sigma;=963|sigmaf;=962|sigmav;=962|sim;=8764|simdot;=10858|sime;=8771|"
          \o "simeq;=8771|simg;=10910|simgE;=10912|siml;=10909|simlE;=10911|simne;=8774|"
          \o "simplus;=10788|simrarr;=10610|slarr;=8592|smallsetminus;=8726|smashp;=10803|"
          \o "smeparsl;=10724|smid;=8739|smile;=8995|smt;=10922|smte;=10924|smtes;=10924,65024|"
          \o "softcy;=1100|sol;=47|solb;=10692|solbar;=9023|sopf;=120164|spades;=9824|"
          \o "spadesuit;=9824|spar;=8741|sqcap;=8851|sqcaps;=8851,65024|sqcup;=8852|"
          \o "sqcups;=8852,65024|sqsub;=8847|sqsube;=8849|sqsubset;=8847|sqsubseteq;=8849|"
          \o "sqsup;=8848|sqsupe;=8850|sqsupset;=8848|sqsupseteq;=8850|squ;=9633|square;=9633|"
          \o "squarf;=9642|squf;=9642|srarr;=8594|sscr;=120008|ssetmn;=8726|ssmile;=8995|"
          \o "sstarf;=8902|star;=9734|starf;=9733|straightepsilon;=1013|straightphi;=981|"
          \o "strns;=175|sub;=8834|subE;=10949|subdot;=10941|sube;=8838|subedot;=10947|"
          \o "submult;=10945|subnE;=10955|subne;=8842|subplus;=10943|subrarr;=10617|subset;=8834|"
          \o "subseteq;=8838|subseteqq;=10949|subsetneq;=8842|subsetneqq;=10955|subsim;=10951|"
          \o "subsub;=10965|subsup;=10963|succ;=8827|succapprox;=10936|succcurlyeq;=8829|"
          \o "succeq;=10928|succnapprox;=10938|succneqq;=10934|succnsim;=8937|succsim;=8831|"
          \o "sum;=8721|sung;=9834|sup1=185|sup1;=185|sup2=178|sup2;=178|sup3=179|sup3;=179|"
          \o "sup;=8835|supE;=10950|supdot;=10942|supdsub;=10968|supe;=8839|supedot;=10948|"
          \o "suphsol;=10185|suphsub;=10967|suplarr;=10619|supmult;=10946|supnE;=10956|"
          \o "supne;=8843|supplus;=10944|supset;=8835|supseteq;=8839|supseteqq;=10950|"
          \o "supsetneq;=8843|supsetneqq;=10956|supsim;=10952|supsub;=10964|supsup;=10966|"
          \o "swArr;=8665|swarhk;=10534|swarr;=8601|swarrow;=8601|swnwar;=10538|szlig=223|"
          \o "szlig;=223|",
    t |-> "|target;=8982|tau;=964|tbrk;=9140|tcaron;=357|tcedil;=355|tcy;=1090|tdot;=8411|"
          \o "telrec;=8981|tfr;=120113|there4;=8756|therefore;=8756|theta;=952|thetasym;=977|"
          \o "thetav;=977|thickapprox;=8776|thicksim;=8764|thinsp;=8201|thkap;=8776|thksim;=8764|"
          \o "thorn=254|thorn;=254|tilde;=732|times=215|times;=215|timesb;=8864|timesbar;=10801|"
          \o "timesd;=10800|tint;=8749|toea;=10536|top;=8868|topbot;=9014|topcir;=10993|"
          \o "topf;=120165|topfork;=10970|tosa;=10537|tprime;=8244|trade;=8482|triangle;=9653|"
          \o "triangledown;=9663|triangleleft;=9667|trianglelefteq;=8884|triangleq;=8796|"
          \o "triangleright;=9657|trianglerighteq;=8885|tridot;=9708|trie;=8796|triminus;=10810|"
          \o "triplus;=10809|trisb;=10701|tritime;=10811|trpezium;=9186|tscr;=120009|tscy;=1094|"
          \o "tshcy;=1115|tstrok;=359|twixt;=8812|twoheadleftarrow;=8606|twoheadrightarrow;=8608|",
    u |-> "|uArr;=8657|uHar;=10595|uacute=250|uacute;=250|uarr;=8593|ubrcy;=1118|ubreve;=365|"
          \o "ucirc=251|ucirc;=251|ucy;=1091|udarr;=8645|udblac;=369|udhar;=10606|ufisht;=10622|"
          \o "ufr;=120114|ugrave=249|ugrave;=249|uharl;=8639|uharr;=8638|uhblk;=9600|ulcorn;=8988|"
          \o "ulcorner;=8988|ulcrop;=8975|ultri;=9720|umacr;=363|uml=168|uml;=168|uogon;=371|"
          \o "uopf;=120166|uparrow;=8593|updownarrow;=8597|upharpoonleft;=8639|"
          \o "upharpoonright;=8638|uplus;=8846|upsi;=965|upsih;=978|upsilon;=965|upuparrows;=8648|"
          \o "urcorn;=8989|urcorner;=8989|urcrop;=8974|uring;=367|urtri;=9721|uscr;=120010|"
          \o "utdot;=8944|utilde;=361|utri;=9653|utrif;=9652|uuarr;=8648|uuml=252|uuml;=252|"
          \o "uwangle;=10663|",
    v |-> "|vArr;=8661|vBar;=10984|vBarv;=10985|vDash;=8872|vangrt;=10652|varepsilon;=1013|"
          \o "varkappa;=1008|varnothing;=8709|varphi;=981|varpi;=982|varpropto;=8733|varr;=8597|"
          \o "varrho;=1009|varsigma;=962|varsubsetneq;=8842,65024|varsubsetneqq;=10955,65024|"
          \o "varsupsetneq;=8843,65024|varsupsetneqq;=10956,65024|vartheta;=977|"
          \o "vartriangleleft;=8882|vartriangleright;=8883|vcy;=1074|vdash;=8866|vee;=8744|"
          \o "veebar;=8891|veeeq;=8794|vellip;=8942|verbar;=124|vert;=124|vfr;=120115|vltri;=8882|"
          \o "vnsub;=8834,8402|vnsup;=8835,8402|vopf;=120167|vprop;=8733|vrtri;=8883|vscr;=120011|"
          \o "vsubnE;=10955,65024|vsubne;=8842,65024|vsupnE;=10956,65024|vsupne;=8843,65024|"
          \o "vzigzag;=10650|",
    w |-> "|wcirc;=373|wedbar;=10847|wedge;=8743|wedgeq;=8793|weierp;=8472|wfr;=120116|"
          \o "wopf;=120168|wp;=8472|wr;=8768|wreath;=8768|wscr;=120012|",
    x |-> "|xcap;=8898|xcirc;=9711|xcup;=8899|xdtri;=9661|xfr;=120117|xhArr;=10234|"
          \o "xharr;=10231|xi;=958|xlArr;=10232|xlarr;=10229|xmap;=10236|xnis;=8955|xodot;=10752|"
          \o "xopf;=120169|xoplus;=10753|xotime;=10754|xrArr;=10233|xrarr;=10230|xscr;=120013|"
          \o "xsqcup;=10758|xuplus;=10756|xutri;=9651|xvee;=8897|xwedge;=8896|",
    y |-> "|yacute=253|yacute;=253|yacy;=1103|ycirc;=375|ycy;=1099|yen=165|yen;=165|"
          \o "yfr;=120118|yicy;=1111|yopf;=120170|yscr;=120014|yucy;=1102|yuml=255|yuml;=255|",
    z |-> "|zacute;=378|zcaron;=382|zcy;=1079|zdot;=380|zeetrf;=8488|zeta;=950|zfr;=120119|"
          \o "zhcy;=1078|zigrarr;=8669|zopf;=120171|zscr;=120015|zwj;=8205|zwnj;=8204|"
  ]

\* html._invalid_charrefs
invalid_charrefs ==
  { <<0, <<Replacement>>>>, <<13, <<"\r">>>>, <<128, <<"U+8364">>>>, <<129, <<"U+129">>>>,
    <<130, <<"U+8218">>>>, <<131, <<"U+402">>>>, <<132, <<"U+8222">>>>, <<133, <<"U+8230">>>>,
    <<134, <<"U+8224">>>>, <<135, <<"U+8225">>>>, <<136, <<"U+710">>>>, <<137, <<"U+8240">>>>,
    <<138, <<"U+352">>>>, <<139, <<"U+8249">>>>, <<140, <<"U+338">>>>, <<141, <<"U+141">>>>,
    <<142, <<"U+381">>>>, <<143, <<"U+143">>>>, <<144, <<"U+144">>>>, <<145, <<"U+8216">>>>,
    <<146, <<"U+8217">>>>, <<147, <<"U+8220">>>>, <<148, <<"U+8221">>>>, <<149, <<"U+8226">>>>,
    <<150, <<"U+8211">>>>, <<151, <<"U+8212">>>>, <<152, <<"U+732">>>>, <<153, <<"U+8482">>>>,
    <<154, <<"U+353">>>>, <<155, <<"U+8250">>>>, <<156, <<"U+339">>>>, <<157, <<"U+157">>>>,
    <<158, <<"U+382">>>>, <<159, <<"U+376">>>> }

\* html._invalid_codepoints
invalid_codepoints ==
  (1..8) \cup {11} \cup (14..31) \cup (127..159) \cup (64976..65007) \cup (65534..65535) \cup
    (131070..131071) \cup (196606..196607) \cup (262142..262143) \cup (327678..327679) \cup
    (393214..393215) \cup (458750..458751) \cup (524286..524287) \cup (589822..589823) \cup
    (655358..655359) \cup (720894..720895) \cup (786430..786431) \cup (851966..851967) \cup
    (917502..917503) \cup (983038..983039) \cup (1048574..1048575) \cup (1114110..1114111)

DecDigits == Chars("0123456789")
HexDigits == Chars("0123456789abcdef")
DigitCls == Cls({DecDigits[i] : i \in 1..10}, FALSE, 0, -1, FALSE)
HexCls ==
  Cls({HexDigits[i] : i \in 1..16} \cup {Upper(HexDigits)[i] : i \in 1..16},
      FALSE, 0, -1, FALSE)

RECURSIVE DigitsValue(_, _, _)
\* int(ds[:n], base), for digits that do not go beyond eight places
DigitsValue(ds, n, base) ==
  IF n = 0 THEN 0
  ELSE DigitsValue(ds, n - 1, base) * base
         + (CHOOSE v \in 0..15 : ds[n] \in {HexDigits[v + 1], Upper(HexDigits)[v + 1]})

\* int(ds, base), or a number beyond the last code point, 0x10FFFF = 1114111,
\* when it is one
IntOf(ds, base) ==
  LET sig == From(ds, FirstMiss(Cls({"0"}, FALSE, 0, -1, FALSE), ds, 1, Len(ds)))
  IN IF Len(sig) > 7 THEN 1114112 ELSE DigitsValue(sig, Len(sig), base)

\* what _replace_charref gives for the number of a numeric reference
NumericRef(num) ==
  IF \E e \in invalid_charrefs : e[1] = num
  THEN (CHOOSE e \in invalid_charrefs : e[1] = num)[2]
  ELSE IF (num >= 55296 /\ num <= 57343) \/ num > 1114111 THEN <<Replacement>>
  ELSE IF num \in invalid_codepoints THEN <<>>
  ELSE <<CodeChar(num)>>

\* the characters of the codes listed
Coded(codes) ==
  LET c == FirstMiss(Cls({","}, TRUE, 0, -1, FALSE), codes, 1, Len(codes))
  IN IF codes = <<>> THEN <<>>
     ELSE IF c > Len(codes) THEN <<CodeChar(IntOf(codes, 10))>>
     ELSE <<CodeChar(IntOf(SubSeq(codes, 1, c - 1), 10)),
            CodeChar(IntOf(SubSeq(codes, c + 1, Len(codes)), 10))>>

\* html5.get(name), the characters of a name, or none for a name html5 has not
html5_get(name) ==
  IF \/ name = <<>>
     \/ \E i \in 1..Len(name) : name[i] \notin AsciiLetters \cup DigitCls.cs \cup {";"}
  THEN <<>>
  ELSE The({ IF name[1] \notin DOMAIN table THEN <<>>
             ELSE The({ Coded(codes) : codes \in {Listed(table[name[1]], key)} }) :
             table \in {html5}, key \in {"|" \o Str(name, Len(name)) \o "="} })

\* what _replace_charref gives for a name s: its characters, or those of the
\* longest name that s begins with and the rest of s, or s as it is
NamedRef(s) ==
  The({ IF got[Len(s)] # <<>> THEN got[Len(s)]
        ELSE LET xs == {x \in 2..(Len(s) - 1) : got[x] # <<>>}
                 x == CHOOSE y \in xs : \A z \in xs : z <= y
             IN IF xs # {} THEN got[x] \o From(s, x + 1) ELSE Chars("&") \o s :
        got \in {[x \in 1..Len(s) |-> html5_get(SubSeq(s, 1, x))]} })

\* the characters a name of a reference is made of, [^\t\n\f <&#;]; a name
\* has 1 to 32 of them
RefNameCls == Cls({"\t", "\n", "\f", " ", "<", "&", "#", ";"}, TRUE, 0, -1, FALSE)

\* _charref.sub(_replace_charref, seg) for a text seg that begins with its
\* only '&'
UnescapeFrom(seg) ==
  LET n == Len(seg)
      semi(e) == IF e <= n /\ seg[e] = ";" THEN e + 1 ELSE e
      dec == FirstMiss(DigitCls, seg, 3, n)
      hex == FirstMiss(HexCls, seg, 4, n)
      run == FirstMiss(RefNameCls, seg, 2, n)
      name == IF run - 2 > 32 THEN 34 ELSE run
  IN IF n >= 2 /\ seg[2] = "#"
     THEN IF dec > 3
          THEN NumericRef(IntOf(SubSeq(seg, 3, dec - 1), 10)) \o From(seg, semi(dec))
          ELSE IF n >= 3 /\ seg[3] \in {"x", "X"} /\ hex > 4
               THEN NumericRef(IntOf(SubSeq(seg, 4, hex - 1), 16)) \o From(seg, semi(hex))
               ELSE seg
     ELSE IF name > 2
          THEN NamedRef(SubSeq(seg, 2, semi(name) - 1)) \o From(seg, semi(name))
          ELSE seg

\* html.unescape: no reference holds a '&', so every '&' is looked at alone
unescape(s) ==
  LET amps == {i \in 1..Len(s) : s[i] = "&"}
      m == Cardinality(amps)
      at == [k \in 1..m |-> CHOOSE p \in amps : Cardinality({q \in amps : q <= p}) = k]
      seg == [k \in 1..m |->
                UnescapeFrom(SubSeq(s, at[k], IF k = m THEN Len(s) ELSE at[k + 1] - 1))]
  IN IF m = 0 THEN s ELSE SubSeq(s, 1, at[1] - 1) \o Join(seg, <<>>)

---------------------------------------------------------------------------
(* aggressive_clean.py: ContentExtractor *)

skip_tags ==
  { Chars("script"), Chars("style"), Chars("noscript"), Chars("meta"),
    Chars("iframe") }
ignore_classes ==
  { Chars("nav"), Chars("navbar"), Chars("menu"), Chars("sidebar"),
    Chars("footer"), Chars("header"), Chars("advertisement"), Chars("ad-"),
    Chars("breadcrumb"), Chars("pagination"), Chars("comments"), Chars("widget"),
    Chars("related") }
heading_tags ==
  { Chars("h1"), Chars("h2"), Chars("h3"), Chars("h4"), Chars("h5"), Chars("h6") }
main_tags == { Chars("main"), Chars("article") }
row_tags == { Chars("li"), Chars("tr"), Chars("td") }
Fence == NL \o <<BT, BT, BT>> \o NL

\* the class attribute of a start tag that has none, and of one that gives the
\* attribute no value (attrs_dict['class'] is None)
NoClass == <<>>
NoValue == <<"None">>

\* ContentExtractor.__init__
NewExtractor ==
  [content |-> <<>>, in_script |-> FALSE, in_style |-> FALSE, in_nav |-> FALSE,
   in_footer |-> FALSE, in_main |-> FALSE, raised |-> FALSE]

IgnoredClass(cls) == \E ig \in ignore_classes : Contains(Lower(cls), ig)

\* what handle_starttag appends for a tag that is neither skipped nor ignored
StartMarker(tag) ==
  IF tag \in heading_tags THEN <<Chars("\n### ") \o Upper(tag) \o NL>>
  ELSE IF tag = Chars("pre") THEN <<Fence>>
  ELSE IF tag = Chars("code") THEN <<<<BT>>>>
  ELSE <<>>

\* ContentExtractor.handle_starttag; class_name.lower() raises when the class
\* attribute has no value
handle_starttag(st, tag, cls) ==
  LET m == [st EXCEPT !.in_main = (tag \in main_tags) \/ st.in_main]
  IN IF tag \in skip_tags
     THEN [m EXCEPT !.in_script = (tag = Chars("script")),
                    !.in_style = (tag = Chars("style"))]
     ELSE IF cls = NoValue THEN [m EXCEPT !.raised = TRUE]
     ELSE IF IgnoredClass(cls) THEN m
     ELSE [m EXCEPT !.content = m.content \o StartMarker(tag)]

\* what handle_endtag appends
EndMarker(tag) ==
  IF tag \in heading_tags THEN <<NL>>
  ELSE IF tag = Chars("pre") THEN <<Fence>>
  ELSE IF tag = Chars("code") THEN <<<<BT>>>>
  ELSE IF tag = Chars("p") THEN <<NL>>
  ELSE IF tag \in row_tags THEN <<NL>>
  ELSE <<>>

\* ContentExtractor.handle_endtag
handle_endtag(st, tag) ==
  LET m == [st EXCEPT !.in_main = IF tag \in main_tags THEN FALSE ELSE st.in_main]
      k == IF tag \in skip_tags
           THEN [m EXCEPT !.in_script = FALSE, !.in_style = FALSE]
           ELSE m
  IN [k EXCEPT !.content = k.content \o EndMarker(tag)]

MinTextLen == 2

\* ContentExtractor.handle_data
handle_data(st, data) ==
  IF st.in_script \/ st.in_style THEN st
  ELSE LET text == Strip(unescape(data))
       IN IF text # <<>> /\ Len(text) > MinTextLen
          THEN [st EXCEPT !.content = Append(st.content, text \o Chars(" "))]
          ELSE st

ExBlankRunRe == Re(Lit(NL) \o Star(WS) \o Lit(NL) \o Star(WS) \o Plus({"\n"}))

\* ContentExtractor.get_content
get_content(st) ==
  Strip(SubAll(<< <<SpacesRe, RpSpace>>, <<ExBlankRunRe, RpTwoNL>> >>,
               Join(st.content, <<>>)))

---------------------------------------------------------------------------
(* html.parser.HTMLParser of the standard library, the base class of
   ContentExtractor: the handler calls that feed makes for a text. A place in
   the text is counted from 1; 0 stands for the -1 a parse method returns for
   markup that is not whole yet. *)

StartOf(tag, cls) == [t |-> "start", tag |-> tag, cls |-> cls, data |-> <<>>]
EndOf(tag) == [t |-> "end", tag |-> tag, cls |-> NoClass, data |-> <<>>]
DataOf(data) == [t |-> "data", tag |-> <<>>, cls |-> NoClass, data |-> data]
\* the AssertionError a parse method raises out of feed
ErrorOf == [t |-> "error", tag |-> <<>>, cls |-> NoClass, data |-> <<>>]

\* one parser event delivered to the extractor; after an exception the parser
\* delivers nothing more
Deliver(st, ev) ==
  IF st.raised THEN st
  ELSE IF ev.t = "start" THEN handle_starttag(st, ev.tag, ev.cls)
  ELSE IF ev.t = "end" THEN handle_endtag(st, ev.tag)
  ELSE IF ev.t = "error" THEN [st EXCEPT !.raised = TRUE]
  ELSE handle_data(st, ev.data)

RECURSIVE DeliverRange(_, _, _, _)
\* the events lo..hi of evs delivered in order
DeliverRange(st, evs, lo, hi) ==
  IF lo > hi THEN st
  ELSE IF lo = hi THEN Deliver(st, evs[lo])
       ELSE LET mid == (lo + hi) \div 2
                l == DeliverRange(st, evs, lo, mid)
            IN IF l.raised THEN l ELSE DeliverRange(l, evs, mid + 1, hi)

\* rawdata[p:p+1]: the character at place p, or none past the end
CharAt(s, p) == IF p >= 1 /\ p <= Len(s) THEN s[p] ELSE ""

\* rawdata.startswith(lit, p)
HasAt(s, p, lit) ==
  /\ p + Len(lit) - 1 <= Len(s)
  /\ SubSeq(s, p, p + Len(lit) - 1) = lit

\* the first place from p on that holds a character of cs, or Len(s) + 1
Find(s, cs, p) ==
  IF p > Len(s) THEN Len(s) + 1
  ELSE FirstMiss(Cls(cs, TRUE, 0, -1, FALSE), s, p, Len(s))

\* the first place from p on that holds no character of cs
Skip(s, cs, p) ==
  IF p > Len(s) THEN p
  ELSE FirstMiss(Cls(cs, FALSE, 0, -1, FALSE), s, p, Len(s))

\* the first of the places lo..Len(s) at which Here holds, or 0
First(s, lo, Here(_)) ==
  LET c == {m \in lo..Len(s) : Here(m)}
  IN IF c = {} THEN 0 ELSE CHOOSE m \in c : \A o \in c : m <= o

\* what ends a tag name in tagfind_tolerant: [\t\n\r\f />\x00]
TagNameEnd == {"\t", "\n", "\r", "\f", " ", "/", ">", "U+0"}
\* what ends an attribute name: [\s/=>]
AttrNameEnd == WS \cup {"/", "=", ">"}
\* [-.a-zA-Z0-9:_] of endtagfind and [-_.a-zA-Z0-9] of _declname
EndNameChars == AsciiLetters \cup DigitCls.cs \cup {"-", ".", ":", "_"}
DeclNameChars == AsciiLetters \cup DigitCls.cs \cup {"-", "_", "."}
Quotes == {"'", "\""}

CDATA_CONTENT_ELEMENTS == {Chars("script"), Chars("style")}

\* where (?:\s|/(?!>))* ends when it starts at p
TrailEnd(s, p) ==
  LET r == Skip(s, WS \cup {"/"}, p)
  IN IF r > p /\ s[r - 1] = "/" /\ CharAt(s, r) = ">" THEN r - 1 ELSE r

\* attrfind_tolerant.match(rawdata, a): whether it matches, the attribute's
\* name, whether a value part follows the name, the value parse_starttag
\* keeps, and where the match ends. The value part is \s*=+\s* and a value in
\* quotes or a bare one; before a quote that nothing closes the pattern gives
\* back what it took: white space before the quote leaves an empty bare
\* value, a second = leaves a bare value that starts at that =, and a single =
\* leaves the name without a value part.
AttrAt(s, a) ==
  LET b == Find(s, AttrNameEnd, a + 1)
      w == Skip(s, WS, b)
      e == Skip(s, {"="}, w)
      v == Skip(s, WS, e)
      c == CharAt(s, v)
      close == Find(s, {c}, v + 1)
      bare(from) == Find(s, WS \cup {">"}, from)
      part == IF CharAt(s, w) # "=" THEN [has |-> FALSE, val |-> <<>>, e |-> b]
              ELSE IF c \in Quotes /\ close <= Len(s)
                   THEN [has |-> TRUE, val |-> SubSeq(s, v + 1, close - 1),
                         e |-> close + 1]
              ELSE IF c \notin Quotes
                   THEN [has |-> TRUE, val |-> SubSeq(s, v, bare(v) - 1),
                         e |-> bare(v)]
              ELSE IF v > e THEN [has |-> TRUE, val |-> <<>>, e |-> v - 1]
              ELSE IF e - w >= 2
                   THEN [has |-> TRUE, val |-> SubSeq(s, e - 1, bare(e - 1) - 1),
                         e |-> bare(e - 1)]
              ELSE [has |-> FALSE, val |-> <<>>, e |-> b]
  IN IF /\ a >= 2
        /\ a <= Len(s)
        /\ s[a - 1] \in WS \cup Quotes \cup {"/"}
        /\ s[a] \notin WS \cup {"/", ">"}
     THEN [ok |-> TRUE, name |-> Lower(SubSeq(s, a, b - 1)), has |-> part.has,
           val |-> unescape(part.val), e |-> TrailEnd(s, part.e)]
     ELSE [ok |-> FALSE, name |-> <<>>, has |-> FALSE, val |-> <<>>, e |-> a]

\* attrs_dict.get('class', '') after one more attribute
ClassAfter(cls, m) ==
  IF m.name # Chars("class") THEN cls
  ELSE IF m.has THEN m.val ELSE NoValue

\* one turn of the attribute loop of parse_starttag, which goes on below
\* place stop while the pattern matches: e is where it stands, cls the class
\* it has read
AttrTurn(s, at, stop) ==
  IF at.e >= stop THEN [at EXCEPT !.done = TRUE]
  ELSE The({ IF m.ok
             THEN [e |-> m.e, cls |-> ClassAfter(at.cls, m), done |-> FALSE]
             ELSE [at EXCEPT !.done = TRUE] : m \in {AttrAt(s, at.e)} })

RECURSIVE AttrTurns(_, _, _, _)
\* up to n turns of the loop, the first half of them and then the rest
AttrTurns(s, at, stop, n) ==
  IF at.done THEN at
  ELSE IF n <= 1 THEN AttrTurn(s, at, stop)
  ELSE AttrTurns(s, AttrTurns(s, at, stop, n \div 2), stop, n - n \div 2)

\* the attribute loop of parse_starttag, and the attributes that
\* locatestarttagend_tolerant matches, from place a: no turn but the last
\* leaves the place where it began
AttrsFrom(s, a, stop) ==
  AttrTurns(s, [e |-> a, cls |-> NoClass, done |-> FALSE], stop, Len(s) + 1)

\* HTMLParser.check_for_whole_start_tag for the < at place p
check_for_whole_start_tag(s, p) ==
  The({ IF CharAt(s, j) = ">" THEN j + 1
        ELSE IF CharAt(s, j) = "/"
             THEN (IF CharAt(s, j + 1) = ">" THEN j + 2 ELSE 0)
        ELSE IF CharAt(s, j) = "" THEN 0
        ELSE IF CharAt(s, j) \in AsciiLetters \cup {"="} THEN 0
        ELSE j :
        j \in {Skip(s, WS, AttrsFrom(s, Skip(s, WS \cup {"/"},
                                               Find(s, TagNameEnd, p + 2)),
                                     Len(s) + 2).e)} })

\* what a parse method hands back: the place k to go on from, the handler
\* calls it made, and the element whose character data follows
Incomplete == [k |-> 0, evs |-> <<>>, cdata |-> <<>>]
Failed == [k |-> 0, evs |-> <<ErrorOf>>, cdata |-> <<>>]
Moved(k) == IF k > 0 THEN [k |-> k, evs |-> <<>>, cdata |-> <<>>] ELSE Incomplete
Closed(s, g) == IF g > Len(s) THEN Incomplete ELSE Moved(g + 1)

\* what parse_starttag does for the whole start tag from p to below endpos,
\* its name read and its attributes, which end at place k with the class cls
StartTagCalls(s, p, endpos, tag, k, cls) ==
  The({ IF end \notin {Chars(">"), Chars("/>")}
        THEN [k |-> endpos, evs |-> <<DataOf(SubSeq(s, p, endpos - 1))>>,
              cdata |-> <<>>]
        ELSE IF EndsWith(end, Chars("/>"))
             THEN [k |-> endpos, evs |-> <<StartOf(tag, cls), EndOf(tag)>>,
                   cdata |-> <<>>]
        ELSE [k |-> endpos, evs |-> <<StartOf(tag, cls)>>,
              cdata |-> IF tag \in CDATA_CONTENT_ELEMENTS THEN tag ELSE <<>>] :
        end \in {Strip(SubSeq(s, k, endpos - 1))} })

\* HTMLParser.parse_starttag for the < at place p
parse_starttag(s, p) ==
  The({ IF endpos = 0 THEN Incomplete
        ELSE The({ StartTagCalls(s, p, endpos, Lower(SubSeq(s, p + 1, q - 1)),
                                 at.e, at.cls) :
                   at \in {AttrsFrom(s, TrailEnd(s, q), endpos)} }) :
        endpos \in {check_for_whole_start_tag(s, p)},
        q \in {Find(s, TagNameEnd, p + 2)} })

\* HTMLParser.parse_endtag for the </ at place p
parse_endtag(s, p, cdata) ==
  LET g == Find(s, {">"}, p + 1)
      a == Skip(s, WS, p + 2)
      b == Skip(s, EndNameChars, a + 1)
      elem == Lower(SubSeq(s, a, b - 1))
      q == Find(s, TagNameEnd, p + 3)
      whole == [k |-> g + 1, evs |-> <<DataOf(SubSeq(s, p, g))>>, cdata |-> cdata]
  IN IF g > Len(s) THEN Incomplete
     ELSE IF CharAt(s, a) \in AsciiLetters /\ CharAt(s, Skip(s, WS, b)) = ">"
          THEN IF cdata # <<>> /\ elem # cdata THEN whole
               ELSE [k |-> g + 1, evs |-> <<EndOf(elem)>>, cdata |-> <<>>]
     ELSE IF cdata # <<>> THEN whole
     ELSE IF CharAt(s, p + 2) \in AsciiLetters
          THEN [k |-> Find(s, {">"}, TrailEnd(s, q)) + 1,
                evs |-> <<EndOf(Lower(SubSeq(s, p + 2, q - 1)))>>,
                cdata |-> <<>>]
     ELSE IF HasAt(s, p, Chars("</>")) THEN Moved(p + 3)
     ELSE Closed(s, Find(s, {">"}, p + 2))

\* ParserBase.parse_comment for the <!-- at place p: to the first --\s*>
parse_comment(s, p) ==
  LET Close(m) == HasAt(s, m, Chars("--")) /\ CharAt(s, Skip(s, WS, m + 2)) = ">"
      m == First(s, p + 4, Close)
  IN IF m = 0 THEN Incomplete ELSE Moved(Skip(s, WS, m + 2) + 1)

\* ParserBase.parse_marked_section for the <![ at place p
parse_marked_section(s, p) ==
  LET b == Skip(s, DeclNameChars, p + 4)
      sectName == Lower(SubSeq(s, p + 3, b - 1))
      second(m) == Skip(s, WS, m + 1)
      Standard(m) == /\ s[m] = "]"
                     /\ CharAt(s, second(m)) = "]"
                     /\ CharAt(s, Skip(s, WS, second(m) + 1)) = ">"
      Office(m) == s[m] = "]" /\ CharAt(s, second(m)) = ">"
      std == First(s, p + 3, Standard)
      ms == First(s, p + 3, Office)
  IN IF p + 3 > Len(s) THEN Incomplete
     ELSE IF s[p + 3] \notin AsciiLetters THEN Failed
     ELSE IF Skip(s, WS, b) > Len(s) THEN Incomplete
     ELSE IF sectName \in {Chars("temp"), Chars("cdata"), Chars("ignore"),
                           Chars("include"), Chars("rcdata")}
          THEN IF std = 0 THEN Incomplete
               ELSE Moved(Skip(s, WS, second(std) + 1) + 1)
     ELSE IF sectName \in {Chars("if"), Chars("else"), Chars("endif")}
          THEN IF ms = 0 THEN Incomplete ELSE Moved(second(ms) + 1)
     ELSE Failed

\* HTMLParser.parse_html_declaration for the <! at place p
parse_html_declaration(s, p) ==
  IF HasAt(s, p, Chars("<![")) THEN parse_marked_section(s, p)
  ELSE IF p + 8 <= Len(s) /\ Lower(SubSeq(s, p, p + 8)) = Chars("<!doctype")
       THEN Closed(s, Find(s, {">"}, p + 9))
  ELSE Closed(s, Find(s, {">"}, p + 2))

\* the branch goahead takes for the < at place p
Markup(s, p, cdata) ==
  IF CharAt(s, p + 1) \in AsciiLetters THEN parse_starttag(s, p)
  ELSE IF HasAt(s, p, Chars("</")) THEN parse_endtag(s, p, cdata)
  ELSE IF HasAt(s, p, Chars("<!--")) THEN parse_comment(s, p)
  ELSE IF HasAt(s, p, Chars("<?")) THEN Closed(s, Find(s, {">"}, p + 2))
  ELSE IF HasAt(s, p, Chars("<!")) THEN parse_html_declaration(s, p)
  ELSE IF p < Len(s) THEN [k |-> p + 1, evs |-> <<DataOf(Chars("<"))>>,
                           cdata |-> <<>>]
  ELSE Incomplete

\* goahead holds back a text without < whose last & is followed by neither
\* white space nor ;, the & looked for from place p on in the last 34
\* characters
HeldBack(s, p) ==
  LET lo == IF p > Len(s) - 33 THEN p ELSE Len(s) - 33
      amps == {a \in lo..Len(s) : s[a] = "&"}
      amppos == CHOOSE a \in amps : \A o \in amps : a >= o
  IN amps # {} /\ \A x \in amppos..Len(s) : s[x] \notin WS \cup {";"}

\* where the text ends that goahead passes on from place p: at the next <, or
\* in character data at the closing tag of the element; 0 when it waits
TextEnd(s, p, cdata) ==
  LET name(m) == Skip(s, WS, m + 2)
      Closing(m) ==
        /\ HasAt(s, m, Chars("</"))
        /\ name(m) + Len(cdata) - 1 <= Len(s)
        /\ \A q \in 1..Len(cdata) : SameLetter(cdata[q], s[name(m) + q - 1])
        /\ CharAt(s, Skip(s, WS, name(m) + Len(cdata))) = ">"
      lt == Find(s, {"<"}, p)
  IN IF cdata # <<>> THEN First(s, p, Closing)
     ELSE IF lt <= Len(s) THEN lt
     ELSE IF HeldBack(s, p) THEN 0
     ELSE Len(s) + 1

\* the handle_data call of goahead for the text from place p to below j, its
\* character references converted outside character data
TextCalls(s, p, j, cdata) ==
  IF p >= j THEN <<>>
  ELSE IF cdata = <<>> THEN <<DataOf(unescape(SubSeq(s, p, j - 1)))>>
  ELSE <<DataOf(SubSeq(s, p, j - 1))>>

\* one turn of the loop of goahead from place p: the text up to the markup
\* and the markup; k = 0 when the loop ends
Turn(s, p, cdata) ==
  The({ IF j = 0 THEN Incomplete
        ELSE The({ IF j > Len(s) THEN [k |-> 0, evs |-> text, cdata |-> cdata]
                   ELSE The({ [k |-> m.k, evs |-> text \o m.evs,
                               cdata |-> m.cdata] :
                              m \in {Markup(s, j, cdata)} }) :
                   text \in {TextCalls(s, p, j, cdata)} }) :
        j \in {TextEnd(s, p, cdata)} })

\* the loop of goahead after one more turn: k is where it stands, evs the
\* handler calls made so far
Ahead(s, go) ==
  IF go.k > Len(s) THEN [go EXCEPT !.done = TRUE]
  ELSE The({ [k |-> t.k, cdata |-> t.cdata, evs |-> go.evs \o t.evs,
              done |-> t.k = 0] : t \in {Turn(s, go.k, go.cdata)} })

RECURSIVE goahead(_, _, _)
\* HTMLParser.goahead(0): up to n turns of its loop, the first half of them
\* and then the rest
goahead(s, go, n) ==
  IF go.done THEN go
  ELSE IF n <= 1 THEN Ahead(s, go)
  ELSE goahead(s, goahead(s, go, n \div 2), n - n \div 2)

\* the handler calls of HTMLParser.feed(s) on a new parser; no turn of the
\* loop but the last leaves the place where it began
Tokenize(s) ==
  goahead(s, [k |-> 1, cdata |-> <<>>, evs |-> <<>>, done |-> FALSE],
          Len(s) + 1).evs

\* extractor.feed(content) on a new extractor
Feed(content) ==
  The({ DeliverRange(NewExtractor, evs, 1, Len(evs)) :
        evs \in {Tokenize(content)} })

---------------------------------------------------------------------------
(* aggressive_clean.py: clean_file and main *)

AggressiveMin == 150
HeadScan == 10

RECURSIVE LastUrlValue(_, _, _)
\* the value the metadata loop leaves for a prefix: that of the last of the
\* lines 1..n that starts with it, or nothing
LastUrlValue(lines, n, prefix) ==
  IF n = 0 THEN <<>>
  ELSE IF StartsWith(lines[n], prefix)
       THEN Strip(Replace(lines[n], prefix, <<>>))
       ELSE LastUrlValue(lines, n - 1, prefix)

\* the metadata of the first lines of the file
UrlValues(content, nlines) ==
  LET all == SplitLines(content)
      n == IF Len(all) < nlines THEN Len(all) ELSE nlines
  IN [source_url |-> LastUrlValue(all, n, SourcePrefix),
      final_url |-> LastUrlValue(all, n, FinalPrefix)]

HeaderRe ==
  Re(Bol \o Lit(SourcePrefix) \o DotStarLazy \o Lit(NL) \o DotStarLazy
       \o Lit(FinalPrefix) \o DotStarLazy \o Lit(NL)
       \o Rep({"="}, SepDetect, -1) \o Lit(NL))

ALinkRe == Re(Lit(Chars("[")) \o GOpen \o NotPlus({"]"}) \o GClose
              \o Lit(Chars("](")) \o NotPlus({")"}) \o Lit(Chars(")")))
AEmphRe == Re(Rep({"*"}, 1, 2) \o GOpen \o NotPlus({"*"}) \o GClose
              \o Rep({"*"}, 1, 2))
AImageRe == Re(Opt({"!"}) \o Lit(Chars("[")) \o DotStarLazy \o Lit(Chars("]("))
               \o DotStarLazy \o Lit(Chars(")")))

\* the markdown removal, done when the content holds ** or [
AggressiveMarkdown(content) ==
  IF Contains(content, Chars("**")) \/ Contains(content, Chars("["))
  THEN SubAll(<< <<ALinkRe, RpGroup>>, <<AEmphRe, RpGroup>>,
                 <<AImageRe, RpEmpty>> >>, content)
  ELSE content

TagRe == Re(Lit(Chars("<")) \o NotPlus({">"}) \o Lit(Chars(">")))
FbLinkRe == Re(Lit(Chars("[")) \o DotStarLazy \o Lit(Chars("]("))
               \o DotStarLazy \o Lit(Chars(")")))
NLRunRe == Re(Plus({"\n"}))
WsRunRe == Re(Plus(WS))

\* the regex cleaning done when the parser raises
FallbackClean(content) ==
  SubAll(<< <<TagRe, RpEmpty>>, <<FbLinkRe, RpEmpty>>,
            <<NLRunRe, Rp(NL, FALSE, <<>>)>> >>, content)

\* cleaned: the extractor's text, or the fallback's, from the file's characters
Extracted(body) ==
  The({ IF st.raised THEN FallbackClean(body) ELSE get_content(st) :
        st \in {Feed(body)} })
AggressiveCleaned(bytes) ==
  The({ Extracted(body) :
        body \in {AggressiveMarkdown(ReSubOnce(HeaderRe, RpEmpty,
                                               ReadText(bytes)))} })

\* the header lines of the file clean_file and clean_external_links write
UrlHeader(md) ==
  LET urls == (IF md.source_url # <<>>
               THEN <<Chars("Source URL: ") \o md.source_url>> ELSE <<>>)
              \o (IF md.final_url # <<>>
                  THEN <<Chars("Final URL: ") \o md.final_url>> ELSE <<>>)
  IN IF urls # <<>> THEN urls \o <<SepLine, <<>>>> ELSE <<>>

\* clean_file: whether it wrote the file, what it wrote, and the length of
\* text_only it measured
\* what clean_file does with the cleaned text
CleanWrite(bytes, content, cleaned) ==
  LET text_only == ReSub(WsRunRe, RpSpace, cleaned)
  IN IF Len(text_only) < AggressiveMin
     THEN [ok |-> FALSE, out |-> bytes, measured |-> Len(text_only)]
     ELSE [ok |-> TRUE, measured |-> Len(text_only),
           out |-> Join(UrlHeader(UrlValues(content, HeadScan)) \o <<cleaned>>, NL)]
CleanRead(bytes, content) ==
  The({ CleanWrite(bytes, content, cleaned) :
        cleaned \in {AggressiveCleaned(content)} })

\* content = f.read() comes first
clean_file(bytes) == The({CleanRead(bytes, content) : content \in {ReadText(bytes)}})

---------------------------------------------------------------------------
(* clean_external_links.py *)

ExternalMin == 200

BulletNavRe ==
  ReM(Bol \o Lit(Chars("*")) \o Plus(WS) \o Lit(Chars("[")) \o DotStarLazy
        \o Lit(Chars("]")) \o DotStarLazy \o Eol)
SkipWordRe ==
  ReM(Bol \o AltCI(<<Chars("Skip"), Chars("Jump"), Chars("Toggle"), Chars("Click"),
                     Chars("Sign in"), Chars("Log in"), Chars("Menu"),
                     Chars("Navigation")>>)
        \o DotStarLazy \o Eol)

\* the basic cleanup done when trafilatura extracts nothing
ExternalFallback(text) ==
  SubAll(<< <<FbLinkRe, RpEmpty>>, <<BulletNavRe, RpEmpty>>,
            <<SkipWordRe, RpEmpty>>, <<ExBlankRunRe, RpTwoNL>> >>, text)

\* what trafilatura.extract may give for a text: nothing, an exception, or a
\* text; the library is not part of the repository, so its answers are the
\* whole text and its first lines
ExtractAnswers(text) ==
  LET lines == SplitLines(text)
  IN { [kind |-> "none", text |-> <<>>], [kind |-> "raise", text |-> <<>>],
       [kind |-> "text", text |-> text] }
     \cup { [kind |-> "text", text |-> Join(SubSeq(lines, 1, n), NL)] :
              n \in 1..(IF Len(lines) < 2 THEN Len(lines) ELSE 2) }

\* the length measured by a pass that raised before it measured
NotMeasured == -1

\* clean_file of clean_external_links, given trafilatura's answer: whether it
\* wrote the file, what it wrote, and the length of text_only it measured
ExternalRead(bytes, content, answer) ==
  LET body == ReSubOnce(HeaderRe, RpEmpty, content)
      cleaned_text == IF answer.kind = "text" /\ answer.text # <<>>
                      THEN Strip(answer.text)
                      ELSE ExternalFallback(body)
      text_only == ReSub(WsRunRe, RpSpace, cleaned_text)
  IN IF answer.kind = "raise"
     THEN [ok |-> FALSE, out |-> bytes, measured |-> NotMeasured]
     ELSE IF Len(text_only) < ExternalMin
          THEN [ok |-> FALSE, out |-> bytes, measured |-> Len(text_only)]
          ELSE [ok |-> TRUE, measured |-> Len(text_only),
                out |-> Join(UrlHeader(UrlValues(content, HeadScan))
                               \o <<cleaned_text>>, NL)]

\* content = f.read() comes first
external_clean_file(bytes, answer) ==
  The({ExternalRead(bytes, content, answer) : content \in {ReadText(bytes)}})

---------------------------------------------------------------------------
(* clean_github_ui.py *)

GithubMin == 100

problem_files ==
  { "web_9.txt", "web_LMAX-Exchange.txt", "web_Paxos.txt",
    "web_TypeDefinition.txt", "web_sudogandhi.txt", "web_tlaplus_specs.txt" }

\* a pattern `from.*?to` with re.DOTALL
Span(from, to) == Re(Lit(Chars(from)) \o AnyStarLazy \o Lit(Chars(to)))
\* a pattern `from.*` with re.DOTALL
ToEnd(from) == Re(Lit(Chars(from)) \o AnyStar)

\* the substitutions of extract_github_content, in the order of the code; each
\* is the pattern and its replacement
GithubSubs ==
  << <<Span("# Search code, repositories,", "Cancel Create saved search"), RpEmpty>>,
     <<Re(Lit(Chars("You signed ")) \o Alt(<<Chars("in"), Chars("out")>>)
            \o AnyStarLazy \o Lit(Chars("refresh your session."))), RpEmpty>>,
     <<Span("You switched accounts", "refresh your session."), RpEmpty>>,
     <<Span("Dismiss alert", "You must be signed in"), RpEmpty>>,
     <<Span("## Labels", "### Development"), RpEmpty>>,
     <<Span("## Metadata", "### Development"), RpEmpty>>,
     <<Span("## Folders and files", "## History"), RpEmpty>>,
     <<Span("## Latest commit", "## Repository"), RpEmpty>>,
     <<ToEnd("No branches or pull requests"), RpEmpty>>,
     <<Re(Lit(Chars("## Popular repositories")) \o AnyStarLazy
            \o Alt(<<Chars("Loading"), Chars("No releases")>>)),
       Rp(Chars("Loading"), FALSE, <<>>)>>,
     <<Re(Lit(Chars("### Resources")) \o AnyStarLazy \o Lit(Chars("### License"))
            \o AnyStarLazy \o Lit(Chars("### Uh oh"))), RpEmpty>>,
     <<Span("### License", "### Uh oh"), RpEmpty>>,
     <<Span("### Uh oh!", "### Stars"), RpEmpty>>,
     <<Span("### Stars", "## Languages"), RpEmpty>>,
     <<Span("## Languages", "(C) 2026"), RpEmpty>>,
     <<ToEnd("(C) 2026 GitHub, Inc."), RpEmpty>>,
     <<Re(Alt(<<Chars("You can't perform that action"),
                Chars("You must be signed in"), Chars("Do not share")>>)
            \o AnyStar), RpEmpty>>,
     <<Re(Lit(Chars("[]()"))), RpEmpty>>,
     <<Re(Lit(Chars("Loading")) \o Plus({"\n"})), RpEmpty>>,
     <<ExBlankRunRe, RpTwoNL>> >>

extract_github_content(content) == Strip(SubAll(GithubSubs, content))

\* the last line of the file that starts with the prefix, or nothing
LastLineWith(lines, prefix) ==
  LET hs == {i \in 1..Len(lines) : StartsWith(lines[i], prefix)}
  IN IF hs = {} THEN <<>> ELSE <<lines[CHOOSE i \in hs : \A j \in hs : i >= j]>>

\* the index of the first body line: the line after the first that holds the
\* separator mark, or the first line when none does
GithubBodyStart(lines) ==
  LET ss == {i \in 1..Len(lines) : Contains(lines[i], SepMark)}
  IN IF ss = {} THEN 1 ELSE (CHOOSE i \in ss : \A j \in ss : i <= j) + 1

\* the loop body without the test of the length: it writes every file
github_clean_file_unmeasured(content) ==
  LET lines == SplitLines(ReadText(content))
      source_url == LastLineWith(lines, SourcePrefix)
      final_url == LastLineWith(lines, FinalPrefix)
      body == extract_github_content(Join(From(lines, GithubBodyStart(lines)), NL))
  IN [ok |-> TRUE, measured |-> Len(Strip(body)),
      out |-> Join(source_url \o final_url \o <<SepLine, <<>>, body>>, NL)]

\* the body of the loop of clean_remaining_files for one existing problem file:
\* whether it wrote the file, what it wrote, and the length it measured
github_clean_file(content) ==
  LET lines == SplitLines(ReadText(content))
      source_url == LastLineWith(lines, SourcePrefix)
      final_url == LastLineWith(lines, FinalPrefix)
      body == extract_github_content(Join(From(lines, GithubBodyStart(lines)), NL))
  IN IF Len(Strip(body)) < GithubMin
     THEN [ok |-> FALSE, out |-> content, measured |-> Len(Strip(body))]
     ELSE [ok |-> TRUE, measured |-> Len(Strip(body)),
           out |-> Join(source_url \o final_url \o <<SepLine, <<>>, body>>, NL)]

---------------------------------------------------------------------------
(* The writers of the record files *)

\* the file scrape_link writes for a page
scrape_record(url, final_url, text) ==
  Chars("Source URL: ") \o url \o NL \o Chars("Final URL: ") \o final_url \o NL
    \o SepLine \o NL \o NL \o text

\* the file process_file of convert_html_to_clean_text writes when the page
\* names no URL
bare_record(text) == SepLine \o NL \o NL \o text

---------------------------------------------------------------------------
(* convert_html_to_clean_text.py: process_file *)

ConvertScan == 5

\* the index of the last line that starts with 'Source URL:', 'Final URL:' or
\* '=': the loop goes through every line, so it is the last such line of
\* the file; 0 when there is none
ConvertMetadataEnd(lines) ==
  LET hs == {i \in 1..Len(lines) : IsUrlLine(lines[i]) \/ StartsWith(lines[i], <<"=">>)}
  IN IF hs = {} THEN 0 ELSE CHOOSE i \in hs : \A j \in hs : i >= j

\* content_part: the lines after metadata_end
content_part(content) ==
  LET lines == SplitLines(content)
  IN Join(From(lines, ConvertMetadataEnd(lines) + 1), NL)

\* the header process_file writes from extract_metadata, which looks at the
\* first five lines
ConvertHeader(content) ==
  LET all == SplitLines(content)
      n == IF Len(all) < ConvertScan THEN Len(all) ELSE ConvertScan
      has(prefix) == \E i \in 1..n : StartsWith(all[i], prefix)
  IN (IF has(SourcePrefix)
      THEN Chars("Source URL: ") \o LastUrlValue(all, n, SourcePrefix) \o NL ELSE <<>>)
     \o (IF has(FinalPrefix)
         THEN Chars("Final URL: ") \o LastUrlValue(all, n, FinalPrefix) \o NL ELSE <<>>)
     \o SepLine \o NL \o NL

TripleNLRe == Re(Rep({"\n"}, 3, -1))

\* the lines stripped, a run of empty lines kept as one, the whole stripped
CollapseLines(text) ==
  LET lines == SplitLines(text)
      st == [i \in 1..Len(lines) |-> Strip(lines[i])]
      keep == {i \in 1..Len(lines) : st[i] # <<>> \/ i = 1 \/ st[i - 1] # <<>>}
      cleaned == SelectSeq([i \in 1..Len(lines) |-> IF i \in keep THEN <<st[i]>> ELSE <<>>],
                           LAMBDA x : x # <<>>)
      joined == Join([i \in 1..Len(cleaned) |-> cleaned[i][1]], NL)
  IN ReSub(TripleNLRe, RpTwoNL, Strip(joined))

\* what BeautifulSoup and html2text make of a content part without markup;
\* the libraries are not part of the repository, so their answers are an
\* exception and the text as it is
ConvertAnswers == {"raise", "text"}

\* convert_html_to_clean_text given the libraries' answer
convert_html_to_clean_text(html_content, answer) ==
  IF answer = "raise" THEN html_content ELSE CollapseLines(html_content)

\* process_file: the file it writes
ProcessRead(content, answer) ==
  ConvertHeader(content) \o convert_html_to_clean_text(content_part(content), answer)

\* content = f.read() comes first
process_file(bytes, answer) ==
  The({ProcessRead(content, answer) : content \in {ReadText(bytes)}})

---------------------------------------------------------------------------
(* The sweeps over the directory, one record at a time *)

MaxPasses == 2

Url == Chars("http://x.com/y")

ShortText ==
  Chars("The queue hands each job to the first free worker in order of arrival.")
MidText ==
  Chars("Home About Contact") \o NL
    \o Chars("The queue hands each job to the first free worker. A failed job goes back to the queue and runs again.")
LongText ==
  Chars("The scheduler keeps a queue of pending jobs and hands each job to the first free worker. When a worker fails, its job goes back to the queue and is tried again on another worker, so the work keeps moving.")
UrlText == Chars("Source URL: evil") \o NL \o LongText
MarkupText == Chars("<p>Jobs &amp; workers: 1 < 2.</p>\r\n") \o LongText

Bodies == {ShortText, MidText, LongText, UrlText, MarkupText}
Records ==
  {scrape_record(Url, Url, b) : b \in Bodies} \cup {bare_record(b) : b \in Bodies}
FileNames == {"web_9.txt", "web_a.txt"}

\* no page is being parsed
NoEvent == [t |-> "none", tag |-> <<>>, cls |-> NoClass, data |-> <<>>]
ParserIdle ==
  /\ ext = NewExtractor
  /\ opened = <<>>
  /\ nested = TRUE
  /\ event = NoEvent
  /\ fed = 0

\* no directory is being swept
SweepIdle ==
  /\ dir = <<>>
  /\ script = "none"
  /\ todo = <<>>
  /\ done = <<>>
  /\ phase = "idle"

\* no PDF is being converted
NoFile == <<"no file">>
PdfIdle ==
  /\ pages = <<>>
  /\ pageno = 0
  /\ doctext = <<>>
  /\ outfile = NoFile
  /\ conv = "idle"

\* no link is being scraped
LinkIdle ==
  /\ link = <<>>
  /\ saved = {}
  /\ counted = "idle"

\* main of scrape_additional_links is not running
NotPrinted == -1
ScrapeIdle ==
  /\ links = <<>>
  /\ visits = <<>>
  /\ successful = 0
  /\ failed = 0
  /\ skipped = 0
  /\ outdir = {}
  /\ total = NotPrinted

\* what a sweep over the record leaves alone
besideRecord == <<parserVars, sweepVars, pdfVars, linkVars, scrapeVars>>
BesideRecordIdle == ParserIdle /\ SweepIdle /\ PdfIdle /\ LinkIdle /\ ScrapeIdle

Init ==
  /\ BesideRecordIdle
  /\ file \in Records
  /\ fname \in FileNames
  /\ present = TRUE
  /\ orig = file
  /\ prev = file
  /\ last = "none"
  /\ outcome = "none"
  /\ measured = NotMeasured
  /\ budget = MaxPasses

\* a sweep takes the records that are in the directory
Runs == budget > 0 /\ present

\* main of a pass that rewrites every record it reads
Rewrite(pass, out) ==
  /\ file' = out
  /\ prev' = file
  /\ last' = pass
  /\ outcome' = "written"
  /\ measured' = NotMeasured
  /\ budget' = budget - 1
  /\ UNCHANGED <<present, fname, orig, besideRecord>>

\* main of a pass that measures the cleaned text: it writes the record when
\* clean_file says so, and otherwise does what the pass does with the rest
Threshold(pass, r, rest) ==
  /\ file' = IF r.ok THEN r.out ELSE IF rest = "deleted" THEN <<>> ELSE file
  /\ present' = (r.ok \/ rest # "deleted")
  /\ prev' = file
  /\ last' = pass
  /\ outcome' = IF r.ok THEN "written" ELSE rest
  /\ measured' = r.measured
  /\ budget' = budget - 1
  /\ UNCHANGED <<fname, orig, besideRecord>>

ExtractSubstance ==
  /\ Runs
  /\ Rewrite("extract_substance", extract_substance(file))

FinalExtract ==
  /\ Runs
  /\ Rewrite("final_extract", final_extract(file))

CleanupNav ==
  /\ Runs
  /\ Rewrite("cleanup_nav", cleanup_file(file))

PolishFiles ==
  /\ Runs
  /\ Rewrite("polish_files", polish_file(file))

\* main of aggressive_clean unlinks the record clean_file refuses
AggressiveClean ==
  /\ Runs
  /\ Threshold("aggressive_clean", clean_file(file), "deleted")

\* main of clean_external_links counts the record clean_file refuses as skipped;
\* trafilatura.extract is given content_without_header, the text f.read()
\* gave without its header
CleanExternalLinks ==
  \E answer \in ExtractAnswers(ReSubOnce(HeaderRe, RpEmpty, ReadText(file))) :
    /\ Runs
    /\ Threshold("clean_external_links", external_clean_file(file, answer), "skipped")

\* clean_remaining_files goes on to the next of its files
CleanGithubUi ==
  /\ Runs
  /\ fname \in problem_files
  /\ Threshold("clean_github_ui", github_clean_file(file), "skipped")

Next ==
  \/ ExtractSubstance
  \/ FinalExtract
  \/ CleanupNav
  \/ PolishFiles
  \/ AggressiveClean
  \/ CleanExternalLinks
  \/ CleanGithubUi

Spec == Init /\ [][Next]_vars

---------------------------------------------------------------------------
(* One body line through one pass *)

LinePasses == 1

LinePre == {<<>>, Chars("See "), Chars("# ")}
LineMid ==
  { Chars("[here](http://x.com/y)"), Chars("![logo](u)"), Chars("[docs](/guide)"),
    Chars("Menu"), Chars("email"), Chars("a"), Chars("**Bold**") }
LinePost == {<<>>, Chars(" for details.")}
LineExtra ==
  { Chars("def menu():"), Chars("class A:"), Chars("#"), Chars("ab"), Chars(" a. "),
    <<BT, BT, BT>>, <<BT, BT, BT>> \o Chars("sh"), Chars("- * -"),
    Chars("Real sentence here."), Chars("It is done."), Chars("1 2 3."),
    Chars("COO") \o <<"U+8490">> \o Chars("IE notice."),
    Chars("(a) (b) (c)."), Chars("({}[]] ({}[]] a."), Chars("Sign in to read more."),
    Chars("Please sign in to read the whole story."),
    Chars("The footer of the page is not shown at all!"),
    Chars("It is *very* good."),
    Chars("Twenty chars of text"), Chars("Twenty chars of texts"),
    Chars("The menu has twenty nine char"), Chars("The menu has twenty nine chars"),
    Chars("![](http://x.com/logo.png)"), Chars("[a](http://x.com/yyyyyyyy)"),
    Chars("![](a b c)") }
Lines == {pre \o mid \o post : pre \in LinePre, mid \in LineMid, post \in LinePost}
           \cup LineExtra
Tails == {<<>>, NL \o LongText, Chars("\r\n") \o LongText}

InitLine ==
  /\ BesideRecordIdle
  /\ file \in {scrape_record(Url, Url, l \o t) : l \in Lines, t \in Tails}
  /\ fname = "web_a.txt"
  /\ present = TRUE
  /\ orig = file
  /\ prev = file
  /\ last = "none"
  /\ outcome = "none"
  /\ measured = NotMeasured
  /\ budget = LinePasses

NextLine ==
  \/ ExtractSubstance
  \/ FinalExtract
  \/ PolishFiles
  \/ AggressiveClean

SpecLine == InitLine /\ [][NextLine]_vars

---------------------------------------------------------------------------
(* A record through two filter passes in a row *)

RepeatPasses == 2

\* bodies of one line, and bodies whose blank lines and rules the passes work on
RepeatBodies ==
  Lines \cup
    { Chars("[[docs](/guide)](http://x.com/y) are here."),
      Chars("Intro line here.") \o NL \o NL \o NL \o NL \o Chars("Last line here."),
      NL \o Chars("Home") \o NL \o NL \o Chars("About the queue.") \o NL,
      Chars("Some *** text *** here.") }

InitRepeat ==
  /\ BesideRecordIdle
  /\ file \in {scrape_record(Url, Url, b) : b \in RepeatBodies}
  /\ fname = "web_a.txt"
  /\ present = TRUE
  /\ orig = file
  /\ prev = file
  /\ last = "none"
  /\ outcome = "none"
  /\ measured = NotMeasured
  /\ budget = RepeatPasses

NextRepeat ==
  \/ ExtractSubstance
  \/ FinalExtract
  \/ CleanupNav
  \/ PolishFiles

SpecRepeat == InitRepeat /\ [][NextRepeat]_vars

---------------------------------------------------------------------------
(* A record with an incomplete header through runs of one pass *)

PartialRuns == 3

\* records with one of the two URL lines, and records with the URL lines and
\* no separator line
PartialBodies == {ShortText, MidText, LongText}
PartialRecords ==
  UNION { { Chars("Source URL: ") \o Url \o NL \o SepLine \o NL \o NL \o b,
            Chars("Final URL: ") \o Url \o NL \o SepLine \o NL \o NL \o b,
            Chars("Source URL: ") \o Url \o NL \o Chars("Final URL: ") \o Url
              \o NL \o NL \o b,
            Chars("Source URL: ") \o Url \o NL \o Chars("Final URL: ") \o Url
              \o NL \o b,
            Chars("Source URL: ") \o Url \o NL \o NL \o b } : b \in PartialBodies }

InitPartial ==
  /\ BesideRecordIdle
  /\ file \in PartialRecords
  /\ fname = "web_a.txt"
  /\ present = TRUE
  /\ orig = file
  /\ prev = file
  /\ last = "none"
  /\ outcome = "none"
  /\ measured = NotMeasured
  /\ budget = PartialRuns

\* the pass that ran is run again
Again(pass) == last \in {"none", pass}

NextPartial ==
  \/ Again("extract_substance") /\ ExtractSubstance
  \/ Again("cleanup_nav") /\ CleanupNav
  \/ Again("aggressive_clean") /\ AggressiveClean

SpecPartial == InitPartial /\ [][NextPartial]_vars

---------------------------------------------------------------------------
(* A record whose body holds lines that look like header lines *)

HeaderRuns == 2

MarkedLine == Chars("See **the** [guide](/g).")
PlainLine == Chars("More text here.")
HeaderLikeLines ==
  { Repeat("=", SepDetect), Chars("= Heading ="), Chars("a ") \o Repeat("=", SepDetect),
    Chars("Source URL: http://z.com/q"), Chars("Final URL: http://z.com/q"),
    Chars("Plain words go here.") }
HeaderLikeBodies == {MarkedLine \o NL \o h \o NL \o PlainLine : h \in HeaderLikeLines}

InitHeader ==
  /\ BesideRecordIdle
  /\ file \in {scrape_record(Url, Url, b) : b \in HeaderLikeBodies}
               \cup {bare_record(b) : b \in HeaderLikeBodies}
  /\ fname = "web_a.txt"
  /\ present = TRUE
  /\ orig = file
  /\ prev = file
  /\ last = "none"
  /\ outcome = "none"
  /\ measured = NotMeasured
  /\ budget = HeaderRuns

\* main of convert_html_to_clean_text: process_file(input_path, input_path)
ConvertHtml ==
  \E answer \in ConvertAnswers :
    /\ Runs
    /\ Rewrite("convert_html_to_clean_text", process_file(file, answer))

NextHeader ==
  \/ ConvertHtml
  \/ PolishFiles

SpecHeader == InitHeader /\ [][NextHeader]_vars

---------------------------------------------------------------------------
(* A page through the extractor and then the substance filter *)

HtmlNav ==
  { Chars("Home About"), Chars("Home About Contact Careers"), Chars("Docs"),
    Chars("Read our guide. Start now."), Chars("Log on"), Chars("Go") }
HtmlTitle == {Chars("Title"), Chars("Menu"), Chars("A")}
HtmlSentence ==
  { Chars("Real sentence here."), Chars("It works!"), Chars("Is it so?"),
    Chars("Done."), Chars("Workers take jobs in order."),
    Chars("The queue hands each job to the first free worker.") }

Page(n, t, s) ==
  Chars("<nav>") \o n \o Chars("</nav><article><h1>") \o t
    \o Chars("</h1><p>") \o s \o Chars("</p></article>")

FilterPasses == 2

InitHtml ==
  /\ BesideRecordIdle
  /\ file \in {Page(n, t, s) : n \in HtmlNav, t \in HtmlTitle, s \in HtmlSentence}
  /\ fname = "web_a.txt"
  /\ present = TRUE
  /\ orig = file
  /\ prev = file
  /\ last = "none"
  /\ outcome = "none"
  /\ measured = NotMeasured
  /\ budget = FilterPasses

\* extractor = ContentExtractor(); extractor.feed(content);
\* cleaned = extractor.get_content()
ExtractContent ==
  /\ Runs
  /\ last = "none"
  /\ ~Feed(file).raised
  /\ Rewrite("ContentExtractor", get_content(Feed(file)))

NextHtml ==
  \/ ExtractContent
  \/ last = "ContentExtractor" /\ ExtractSubstance

SpecHtml == InitHtml /\ [][NextHtml]_vars

---------------------------------------------------------------------------
(* The events of a page, one at a time, through the extractor *)

MaxEvents == 4

\* no record is being swept
RecordIdle ==
  /\ file = <<>>
  /\ present = FALSE
  /\ fname = ""
  /\ orig = <<>>
  /\ prev = <<>>
  /\ last = "none"
  /\ outcome = "none"
  /\ measured = NotMeasured
  /\ budget = 0

\* the start tags and the text nodes of the pages
EvStarts ==
  { StartOf(Chars("div"), Chars("nav")), StartOf(Chars("div"), NoClass),
    StartOf(Chars("li"), Chars("Sidebar-item")), StartOf(Chars("p"), NoClass),
    StartOf(Chars("script"), NoClass), StartOf(Chars("noscript"), NoClass),
    StartOf(Chars("meta"), NoClass) }
EvTexts ==
  { Chars("Home About Contact"), Chars("Enable JavaScript to go on."), Chars("No") }

\* start tags of the elements that get markers, with and without a class of
\* the denylist
MarkerStarts ==
  { StartOf(Chars("pre"), NoClass), StartOf(Chars("pre"), Chars("code-header")),
    StartOf(Chars("code"), NoClass), StartOf(Chars("code"), Chars("comments")),
    StartOf(Chars("h2"), NoClass), StartOf(Chars("h2"), Chars("section-header")),
    StartOf(Chars("div"), NoClass) }
MarkerTexts == {Chars("x = 1")}

\* the end tags of the pages
EvEnds == {ev.tag : ev \in EvStarts \cup MarkerStarts}

\* HTMLParser.set_cdata_mode: the content of script and style is character
\* data, in which the parser sees no tag but the end tag of that element
InCdata == opened # <<>> /\ opened[Len(opened)].tag \in CDATA_CONTENT_ELEMENTS

\* the open elements of the page after the end tag of a name: the innermost
\* element of that name is closed with all that is open within it, and an end
\* tag that no open element has closes nothing
ClosedBy(tag) ==
  LET same == {i \in 1..Len(opened) : opened[i].tag = tag}
  IN IF same = {} THEN opened
     ELSE SubSeq(opened, 1, (CHOOSE i \in same : \A j \in same : j <= i) - 1)

\* what the parser leaves alone
besideParser == <<recordVars, sweepVars, pdfVars, linkVars, scrapeVars>>

InitEvents ==
  /\ RecordIdle
  /\ ScrapeIdle
  /\ LinkIdle
  /\ SweepIdle
  /\ PdfIdle
  /\ ParserIdle

\* HTMLParser.goahead goes on while there is input and no handler has raised
Parsing == fed < MaxEvents /\ ~ext.raised

\* HTMLParser.parse_starttag calls handle_starttag
StartTag ==
  \E ev \in EvStarts :
    /\ Parsing
    /\ ~InCdata
    /\ ext' = Deliver(ext, ev)
    /\ opened' = Append(opened, ev)
    /\ event' = ev
    /\ fed' = fed + 1
    /\ UNCHANGED <<nested, besideParser>>

\* HTMLParser.parse_endtag calls handle_endtag for every end tag, whether an
\* element of that name is open or not; within script and style the end tag
\* of that element is the only one
EndTag ==
  \E tag \in EvEnds :
    /\ Parsing
    /\ InCdata => tag = opened[Len(opened)].tag
    /\ ext' = Deliver(ext, EndOf(tag))
    /\ opened' = ClosedBy(tag)
    /\ nested' = (nested /\ opened # <<>> /\ opened[Len(opened)].tag = tag)
    /\ event' = EndOf(tag)
    /\ fed' = fed + 1
    /\ UNCHANGED besideParser

\* HTMLParser.goahead calls handle_data for the text between two tags; the
\* text within script and style comes in one call, as no comment parts it
TextNode ==
  \E d \in EvTexts :
    /\ Parsing
    /\ InCdata => event.t # "data"
    /\ ext' = Deliver(ext, DataOf(d))
    /\ event' = DataOf(d)
    /\ fed' = fed + 1
    /\ UNCHANGED <<opened, nested, besideParser>>

NextEvents ==
  \/ StartTag
  \/ EndTag
  \/ TextNode

SpecEvents == InitEvents /\ [][NextEvents]_vars

---------------------------------------------------------------------------
(* The events of pre, code and heading elements through the extractor *)

MarkerStartTag ==
  \E ev \in MarkerStarts :
    /\ Parsing
    /\ ext' = Deliver(ext, ev)
    /\ opened' = Append(opened, ev)
    /\ event' = ev
    /\ fed' = fed + 1
    /\ UNCHANGED <<nested, besideParser>>

MarkerTextNode ==
  \E d \in MarkerTexts :
    /\ Parsing
    /\ ext' = Deliver(ext, DataOf(d))
    /\ event' = DataOf(d)
    /\ fed' = fed + 1
    /\ UNCHANGED <<opened, nested, besideParser>>

NextMarkers ==
  \/ MarkerStartTag
  \/ EndTag
  \/ MarkerTextNode

SpecMarkers == InitEvents /\ [][NextMarkers]_vars

---------------------------------------------------------------------------
(* audit_files.py: audit_and_fix *)

AuditMin == 150

\* the list a file is put on
AuditRead(content) ==
  LET lines == SplitLines(content)
      fs == {i \in 1..Len(lines) : StartsWith(lines[i], FinalPrefix)}
  IN IF fs = {} THEN "empty"
     ELSE LET first == lines[CHOOSE i \in fs : \A j \in fs : i <= j]
              final_url == Strip(Replace(first, FinalPrefix, <<>>))
              ms == {i \in 1..(Len(content) - SepDetect + 1) :
                       SubSeq(content, i, i + SepDetect - 1) = SepMark}
              body == IF ms = {} THEN <<>>
                      ELSE Strip(From(content,
                                      (CHOOSE i \in ms : \A j \in ms : i <= j)
                                        + SepDetect))
          IN IF Len(body) < AuditMin
             THEN IF Contains(Lower(final_url), Chars("github")) THEN "github_ui"
                  ELSE IF Contains(Lower(final_url), Chars("ieee"))
                            \/ Contains(Lower(final_url), Chars("springer"))
                       THEN "paywalled"
                       ELSE "empty"
             ELSE IF Contains(final_url, Chars("github.com"))
                       /\ Contains(body, Chars("Search code"))
                  THEN "github_ui"
                  ELSE "good"

\* content = f.read() comes first
audit_class(bytes) == The({AuditRead(content) : content \in {ReadText(bytes)}})

---------------------------------------------------------------------------
(* The loop of a sweep script over the files of the directory *)

MaxFiles == 3

\* sorted(links_dir.glob('web_*.txt'))
GlobNames == <<"web_1.txt", "web_2.txt", "web_3.txt", "web_4.txt">>
SweepNames == SubSeq(GlobNames, 1, MaxFiles)

ThinBody == Chars("Home page") \o NL \o Chars("It works.")

\* a file of the directory: its text, and whether it can be opened and whether
\* its bytes are UTF-8; the text of a file that is not is the decoding with
\* errors='replace'
DirFiles ==
  { [kind |-> "text", text |-> scrape_record(Url, Url, ThinBody)],
    [kind |-> "text", text |-> scrape_record(Url, Url, LongText)],
    [kind |-> "undecodable",
     text |-> scrape_record(Url, Url, ThinBody) \o NL \o <<Replacement>>
                \o Chars(" is not a character.")],
    [kind |-> "unreadable", text |-> scrape_record(Url, Url, ThinBody)] }

SweepScripts ==
  {"extract_substance", "final_extract", "cleanup_nav", "polish_files", "audit_files"}

\* what the sweep leaves alone
besideSweep == <<recordVars, parserVars, pdfVars, linkVars, scrapeVars>>

InitSweep ==
  /\ RecordIdle
  /\ ScrapeIdle
  /\ LinkIdle
  /\ ParserIdle
  /\ PdfIdle
  /\ dir \in [{SweepNames[i] : i \in 1..MaxFiles} -> DirFiles]
  /\ script \in SweepScripts
  /\ todo = SweepNames
  /\ done = <<>>
  /\ phase = "running"

\* the loop of script s has a file to take
Sweeping(s) == script = s /\ phase = "running" /\ todo # <<>>

\* open(file_path, 'r', encoding='utf-8') and f.read() raise for a file that
\* cannot be opened and for bytes that are not UTF-8; with errors='replace'
\* only the first raises
ReadRaises(f, strict) ==
  dir[f].kind = "unreadable" \/ (strict /\ dir[f].kind = "undecodable")

\* the loop body went through: the file holds text, and the loop goes on
Taken(text, result) ==
  /\ dir' = [dir EXCEPT ![Head(todo)] = [kind |-> "text", text |-> text]]
  /\ done' = Append(done, [name |-> Head(todo), result |-> result])
  /\ todo' = Tail(todo)
  /\ UNCHANGED <<script, phase>>

\* the loop body left the file as it was
Seen(result) ==
  /\ done' = Append(done, [name |-> Head(todo), result |-> result])
  /\ todo' = Tail(todo)
  /\ UNCHANGED <<dir, script, phase>>

\* an exception nothing catches ends the script
Uncaught ==
  /\ phase' = "aborted"
  /\ UNCHANGED <<dir, script, todo, done>>

\* extract_substance.main: the loop body is in try/except Exception
SweepExtractSubstance ==
  /\ Sweeping("extract_substance")
  /\ IF ReadRaises(Head(todo), FALSE) THEN Seen("error")
     ELSE Taken(extract_substance(dir[Head(todo)].text), "written")
  /\ UNCHANGED besideSweep

\* final_extract.main: the loop body is in try/except Exception
SweepFinalExtract ==
  /\ Sweeping("final_extract")
  /\ IF ReadRaises(Head(todo), FALSE) THEN Seen("error")
     ELSE Taken(final_extract(dir[Head(todo)].text), "written")
  /\ UNCHANGED besideSweep

\* polish_files.main: the loop body is in try/except Exception
SweepPolishFiles ==
  /\ Sweeping("polish_files")
  /\ IF ReadRaises(Head(todo), FALSE) THEN Seen("error")
     ELSE Taken(polish_file(dir[Head(todo)].text), "written")
  /\ UNCHANGED besideSweep

\* cleanup_nav.main calls cleanup_file with no try around it, and cleanup_file
\* reads without errors='replace'
SweepCleanupNav ==
  /\ Sweeping("cleanup_nav")
  /\ IF ReadRaises(Head(todo), TRUE) THEN Uncaught
     ELSE Taken(cleanup_file(dir[Head(todo)].text), "written")
  /\ UNCHANGED besideSweep

\* audit_files.audit_and_fix reads with no try around it and without
\* errors='replace'
SweepAudit ==
  /\ Sweeping("audit_files")
  /\ IF ReadRaises(Head(todo), TRUE) THEN Uncaught
     ELSE Seen(audit_class(dir[Head(todo)].text))
  /\ UNCHANGED besideSweep

\* the files the loop counted as result
Counted(result) == Cardinality({i \in 1..Len(done) : done[i].result = result})

\* the division of the lines after the loop: final_extract.main divides by
\* len(files); the other sweeps over the records do not divide
ReportRaises == script = "final_extract" /\ Len(done) = 0

\* the lines after the loop of a sweep over the records: a ZeroDivisionError
\* there is caught by nothing
SweepReport ==
  /\ script # "batch_convert_pymupdf"
  /\ phase = "running"
  /\ todo = <<>>
  /\ phase' = IF ReportRaises THEN "aborted" ELSE "reported"
  /\ UNCHANGED <<dir, script, todo, done, besideSweep>>

NextSweep ==
  \/ SweepExtractSubstance
  \/ SweepFinalExtract
  \/ SweepPolishFiles
  \/ SweepCleanupNav
  \/ SweepAudit
  \/ SweepReport

SpecSweep == InitSweep /\ [][NextSweep]_vars

---------------------------------------------------------------------------
(* batch_convert_pymupdf.py: the conversion of one PDF *)

MaxPages == 3

RECURSIVE Digits(_)
\* the decimal digits of a number, as an f-string writes it
Digits(n) ==
  IF n < 10 THEN <<Chars("0123456789")[n + 1]>>
  ELSE Digits(n \div 10) \o <<Chars("0123456789")[(n % 10) + 1]>>

\* f"\n--- Page {page_num + 1} ---\n", page_num counted from 0
PageMarker(page_num) ==
  NL \o Chars("--- Page ") \o Digits(page_num + 1) \o Chars(" ---") \o NL

\* what the loop body adds for the text of page page_num: nothing for a page
\* without text
PageChunkAlways(page_num, page_text) == PageMarker(page_num) \o page_text
PageChunk(page_num, page_text) ==
  IF page_text # <<>> THEN PageMarker(page_num) \o page_text ELSE <<>>

\* a page whose get_text raises
Raises == <<"raises">>
PageTexts == {<<>>, Chars("Intro"), Chars("Body"), Raises}

\* what the converter leaves alone
besidePdf == <<recordVars, parserVars, sweepVars, linkVars, scrapeVars>>

\* text = "" and doc = fitz.open(pdf_path)
InitPdf ==
  /\ RecordIdle
  /\ ScrapeIdle
  /\ LinkIdle
  /\ ParserIdle
  /\ SweepIdle
  /\ pages \in UNION {[1..n -> PageTexts] : n \in 0..MaxPages}
  /\ pageno = 0
  /\ doctext = <<>>
  /\ outfile = NoFile
  /\ conv = "reading"

\* one turn of the loop over the pages
ReadPage ==
  /\ conv = "reading"
  /\ pageno < Len(pages)
  /\ pages[pageno + 1] # Raises
  /\ doctext' = doctext \o PageChunk(pageno, pages[pageno + 1])
  /\ pageno' = pageno + 1
  /\ UNCHANGED <<pages, outfile, conv, besidePdf>>

\* get_text raises: the except branch of the file counts the PDF as failed
ConvertFails ==
  /\ conv = "reading"
  /\ pageno < Len(pages)
  /\ pages[pageno + 1] = Raises
  /\ conv' = "failed"
  /\ UNCHANGED <<pages, pageno, doctext, outfile, besidePdf>>

\* after the loop the text is written and the PDF counted as successful
WriteText ==
  /\ conv = "reading"
  /\ pageno = Len(pages)
  /\ outfile' = doctext
  /\ conv' = "converted"
  /\ UNCHANGED <<pages, pageno, doctext, besidePdf>>

NextPdf ==
  \/ ReadPage
  \/ ConvertFails
  \/ WriteText

SpecPdf == InitPdf /\ [][NextPdf]_vars

---------------------------------------------------------------------------
(* scrape_additional_links.py: scrape_link and main *)

MagicLen == 4
NameMax == 100

\* the fragments clean_url knows, each with what it puts for the ellipsis
url_completions ==
  << [fragment |-> Chars("pubs.html#di"), completion |-> Chars("stributed-systems/")],
     [fragment |-> Chars("teaching-con"), completion |-> Chars("currency.html")],
     [fragment |-> Chars("two-phase.htm"), completion |-> Chars("l")],
     [fragment |-> Chars("EWD998"), completion |-> Chars("aaa/EWD998.txt")] >>

\* clean_url: the ';' at the end are stripped, then the '.', and then the
\* ellipsis is looked for
clean_url(url) ==
  LET stripped == RStripChar(RStripChar(url, ";"), ".")
      known == {k \in DOMAIN url_completions :
                  Contains(stripped, url_completions[k].fragment)}
  IN IF EndsWith(stripped, Chars("...")) /\ known # {}
     THEN Replace(stripped, Chars("..."),
                  url_completions[CHOOSE k \in known : \A j \in known : k <= j].completion)
     ELSE stripped

\* is_pdf_content: content[:4] == b'%PDF'
is_pdf_content_three_bytes(content) ==
  SubSeq(content, 1, IF Len(content) < 3 THEN Len(content) ELSE 3) = Chars("%PD")
is_pdf_content(content) ==
  SubSeq(content, 1, IF Len(content) < MagicLen THEN Len(content) ELSE MagicLen)
    = Chars("%PDF")

\* what a page gives that has no text layer, and what extract_pdf_text
\* returns when it has no text to give
None == <<"None">>

RECURSIVE JoinPages(_, _)
\* '\n\n'.join(text)
JoinPages(ts, n) ==
  IF n = 0 THEN <<>>
  ELSE IF n = 1 THEN ts[1]
       ELSE JoinPages(ts, n - 1) \o NL \o NL \o ts[n]

\* extract_pdf_text with the library that is installed: pdfplumber leaves out
\* the pages without text, PyPDF2 joins what every page gives and raises on
\* None; an exception, and no library at all, give None
extract_pdf_text(lib, ps) ==
  IF \E k \in 1..Len(ps) : ps[k] = Raises THEN None
  ELSE IF lib = "pdfplumber"
       THEN LET ts == SelectSeq(ps, LAMBDA t : t # None /\ t # <<>>)
            IN JoinPages(ts, Len(ts))
       ELSE IF lib = "PyPDF2"
            THEN IF \E k \in 1..Len(ps) : ps[k] = None THEN None
                 ELSE JoinPages(ps, Len(ps))
            ELSE None

\* the ValueError urlparse raises for a netloc it does not take
ValueError == <<"ValueError">>

\* str.split(c): the texts between the characters c
SplitOn(s, c) ==
  LET at == {i \in 1..Len(s) : s[i] = c}
      m == Cardinality(at)
      pos == [k \in 0..(m + 1) |->
                IF k = 0 THEN 0
                ELSE IF k = m + 1 THEN Len(s) + 1
                ELSE CHOOSE p \in at : Cardinality({q \in at : q <= p}) = k]
  IN [k \in 1..(m + 1) |-> SubSeq(s, pos[k - 1] + 1, pos[k] - 1)]

\* `c in s`
Holds(s, c) == \E k \in 1..Len(s) : s[k] = c

\* ipaddress.IPv4Address._parse_octet: a decimal number up to 255 of at most
\* three digits, with no zero before it
IsOctet(p) ==
  /\ Len(p) >= 1
  /\ \A k \in 1..Len(p) : p[k] \in DigitCls.cs
  /\ Len(p) <= 3
  /\ Len(p) > 1 => p[1] # "0"
  /\ DigitsValue(p, Len(p), 10) <= 255

\* ipaddress.IPv4Address takes the text
IsIPv4(s) ==
  /\ s # <<>>
  /\ Len(SplitOn(s, ".")) = 4
  /\ \A k \in 1..4 : IsOctet(SplitOn(s, ".")[k])

\* ipaddress.IPv6Address._parse_hextet: one to four digits of base 16
IsHextet(p) == Len(p) >= 1 /\ Len(p) <= 4 /\ \A k \in 1..Len(p) : p[k] \in HexCls.cs

\* ipaddress.IPv6Address takes the text: the scope after '%' is split off,
\* an IPv4 address at the end stands for two parts, '::' stands for the
\* parts that are left out
IsIPv6(h) ==
  LET pct == First(h, 1, LAMBDA m : h[m] = "%")
      addr == IF pct > 0 THEN SubSeq(h, 1, pct - 1) ELSE h
      scope == IF pct > 0 THEN From(h, pct + 1) ELSE <<>>
      raw == SplitOn(addr, ":")
      v4 == Holds(raw[Len(raw)], ".")
      parts == IF v4 THEN SubSeq(raw, 1, Len(raw) - 1) \o <<Chars("0"), Chars("0")>>
               ELSE raw
      n == Len(parts)
      skips == {i \in 2..(n - 1) : parts[i] = <<>>}
      parts_hi == The(skips) - 1 - (IF parts[1] = <<>> THEN 1 ELSE 0)
      parts_lo == n - The(skips) - (IF parts[n] = <<>> THEN 1 ELSE 0)
  IN /\ pct > 0 => scope # <<>> /\ ~Holds(scope, "%")
     /\ addr # <<>>
     /\ Len(raw) >= 3
     /\ v4 => IsIPv4(raw[Len(raw)])
     /\ n <= 9
     /\ Cardinality(skips) <= 1
     /\ IF skips # {}
        THEN /\ parts[1] = <<>> => parts_hi = 0
             /\ parts[n] = <<>> => parts_lo = 0
             /\ 8 - (parts_hi + parts_lo) >= 1
             /\ \A i \in 1..parts_hi : IsHextet(parts[i])
             /\ \A i \in (n - parts_lo + 1)..n : IsHextet(parts[i])
        ELSE /\ n = 8
             /\ \A i \in 1..n : IsHextet(parts[i])

\* urllib.parse._check_bracketed_host: the host between brackets is an
\* IPvFuture address, r"\Av[a-fA-F0-9]+\..+\Z", or an IPv6 address
BracketedHostTaken(hostname) ==
  IF StartsWith(hostname, <<"v">>)
  THEN LET dot == FirstMiss(HexCls, hostname, 2, Len(hostname))
       IN dot > 2 /\ dot < Len(hostname) /\ hostname[dot] = "."
  ELSE IsIPv6(hostname)

\* the characters outside ASCII whose NFKC form holds one of '/?#@:'
nfkc_delimiters ==
  { "U+8263", "U+8264", "U+8265", "U+8448", "U+8449", "U+8453", "U+8454", "U+10868",
    "U+65043", "U+65046", "U+65109", "U+65110", "U+65119", "U+65131", "U+65283",
    "U+65295", "U+65306", "U+65311", "U+65312" }

\* urlsplit raises for a netloc with one bracket alone, with brackets around
\* what is no address, and (_checknetloc) with a character that NFKC turns
\* into a delimiter
NetlocTaken(netloc) ==
  LET after == From(netloc, First(netloc, 1, LAMBDA m : netloc[m] = "[") + 1)
      close == First(after, 1, LAMBDA m : after[m] = "]")
      bracketed_host == IF close > 0 THEN SubSeq(after, 1, close - 1) ELSE after
  IN /\ Holds(netloc, "[") <=> Holds(netloc, "]")
     /\ Holds(netloc, "[") => BracketedHostTaken(bracketed_host)
     /\ \A k \in 1..Len(netloc) : netloc[k] \notin nfkc_delimiters

\* _WHATWG_C0_CONTROL_OR_SPACE, _UNSAFE_URL_BYTES_TO_REMOVE, scheme_chars and
\* uses_params of urllib.parse
C0_CONTROL_OR_SPACE == {CodeChar(n) : n \in 0..32}
UNSAFE_URL_BYTES_TO_REMOVE == {"\t", "\r", "\n"}
scheme_chars == AsciiLetters \cup DigitCls.cs \cup {"+", "-", "."}
uses_params ==
  { <<>>, Chars("ftp"), Chars("hdl"), Chars("prospero"), Chars("http"),
    Chars("imap"), Chars("https"), Chars("shttp"), Chars("rtsp"), Chars("rtsps"),
    Chars("rtspu"), Chars("sip"), Chars("sips"), Chars("mms"), Chars("sftp"),
    Chars("tel") }

\* the place of the ':' that ends the scheme of a URL, 0 when the URL has no
\* scheme: a letter of ASCII comes first and scheme_chars follow
SchemeEnd(u) ==
  The({ IF /\ i > 1
           /\ u[1] \in AsciiLetters
           /\ \A k \in 1..(i - 1) : u[k] \in scheme_chars
        THEN i ELSE 0 :
        i \in {First(u, 1, LAMBDA m : u[m] = ":")} })

\* _splitnetloc(url, 2) for what follows the scheme: the netloc, which is
\* what stands between '//' and the first of '/?#', and the rest
SplitNetloc(rest) ==
  IF StartsWith(rest, Chars("//"))
  THEN The({ <<SubSeq(rest, 3, delim - 1), From(rest, delim)>> :
             delim \in {FirstMiss(Cls({"/", "?", "#"}, TRUE, 0, -1, FALSE),
                                  rest, 3, Len(rest))} })
  ELSE <<<<>>, rest>>

\* url.split('#', 1) and then url.split('?', 1): the path
PathOf(tail) ==
  The({ The({ IF query > 0 THEN SubSeq(unfrag, 1, query - 1) ELSE unfrag :
              query \in {First(unfrag, 1, LAMBDA m : unfrag[m] = "?")} }) :
        unfrag \in {The({ IF frag > 0 THEN SubSeq(tail, 1, frag - 1) ELSE tail :
                          frag \in {First(tail, 1, LAMBDA m : tail[m] = "#")} })} })

\* urlsplit after the strip of the URL
SplitCleaned(u) ==
  The({ The({ [raised |-> ~NetlocTaken(parts[1]),
               scheme |-> IF i > 0 THEN Lower(SubSeq(u, 1, i - 1)) ELSE <<>>,
               netloc |-> parts[1],
               path |-> PathOf(parts[2])] :
              parts \in {The({ SplitNetloc(rest) :
                               rest \in {IF i > 0 THEN From(u, i + 1) ELSE u} })} }) :
        i \in {SchemeEnd(u)} })

\* urllib.parse.urlsplit: the scheme, the netloc and the path of a URL, and
\* whether it raises ValueError; the white space and the control characters
\* before the URL go first, then every tab and line end
urlsplit(url) ==
  The({ SplitCleaned(u) :
        u \in {SelectSeq(From(url, FirstMiss(Cls(C0_CONTROL_OR_SPACE, FALSE, 0, -1, FALSE),
                                             url, 1, Len(url))),
                         LAMBDA c : c \notin UNSAFE_URL_BYTES_TO_REMOVE)} })

\* _splitparams of urllib.parse: the path without the parameters that follow
\* the first ';' of its last part
splitparams(path) ==
  LET slash == LastMiss(Cls({"/"}, TRUE, 0, -1, FALSE), path, 1, Len(path))
      i == First(path, IF slash > 0 THEN slash ELSE 1, LAMBDA m : path[m] = ";")
  IN IF i = 0 THEN path ELSE SubSeq(path, 1, i - 1)

\* urllib.parse.urlparse
urlparse(url) ==
  The({ IF v.scheme \in uses_params /\ Holds(v.path, ";")
        THEN [v EXCEPT !.path = splitparams(v.path)]
        ELSE v : v \in {urlsplit(url)} })

\* os.path.basename
Basename(path) ==
  From(path, LastMiss(Cls({"/"}, TRUE, 0, -1, FALSE), path, 1, Len(path)) + 1)

\* the code of a character written U+ and its code
CodeOf(c) == DigitsValue(Chars(SubSeq(c, 3, Len(c))), Len(c) - 2, 10)

\* the characters outside ASCII that the class \w of a str pattern takes, the
\* letters, the digits and the numbers of Unicode 14: the first and the last
\* code of each run
word_ranges ==
  <<
     <<170, 170>>, <<178, 179>>, <<181, 181>>, <<185, 186>>, <<188, 190>>, <<192, 214>>,
     <<216, 246>>, <<248, 705>>, <<710, 721>>, <<736, 740>>, <<748, 748>>, <<750, 750>>,
     <<880, 884>>, <<886, 887>>, <<890, 893>>, <<895, 895>>, <<902, 902>>, <<904, 906>>,
     <<908, 908>>, <<910, 929>>, <<931, 1013>>, <<1015, 1153>>, <<1162, 1327>>, <<1329, 1366>>,
     <<1369, 1369>>, <<1376, 1416>>, <<1488, 1514>>, <<1519, 1522>>, <<1568, 1610>>, <<1632, 1641>>,
     <<1646, 1647>>, <<1649, 1747>>, <<1749, 1749>>, <<1765, 1766>>, <<1774, 1788>>, <<1791, 1791>>,
     <<1808, 1808>>, <<1810, 1839>>, <<1869, 1957>>, <<1969, 1969>>, <<1984, 2026>>, <<2036, 2037>>,
     <<2042, 2042>>, <<2048, 2069>>, <<2074, 2074>>, <<2084, 2084>>, <<2088, 2088>>, <<2112, 2136>>,
     <<2144, 2154>>, <<2160, 2183>>, <<2185, 2190>>, <<2208, 2249>>, <<2308, 2361>>, <<2365, 2365>>,
     <<2384, 2384>>, <<2392, 2401>>, <<2406, 2415>>, <<2417, 2432>>, <<2437, 2444>>, <<2447, 2448>>,
     <<2451, 2472>>, <<2474, 2480>>, <<2482, 2482>>, <<2486, 2489>>, <<2493, 2493>>, <<2510, 2510>>,
     <<2524, 2525>>, <<2527, 2529>>, <<2534, 2545>>, <<2548, 2553>>, <<2556, 2556>>, <<2565, 2570>>,
     <<2575, 2576>>, <<2579, 2600>>, <<2602, 2608>>, <<2610, 2611>>, <<2613, 2614>>, <<2616, 2617>>,
     <<2649, 2652>>, <<2654, 2654>>, <<2662, 2671>>, <<2674, 2676>>, <<2693, 2701>>, <<2703, 2705>>,
     <<2707, 2728>>, <<2730, 2736>>, <<2738, 2739>>, <<2741, 2745>>, <<2749, 2749>>, <<2768, 2768>>,
     <<2784, 2785>>, <<2790, 2799>>, <<2809, 2809>>, <<2821, 2828>>, <<2831, 2832>>, <<2835, 2856>>,
     <<2858, 2864>>, <<2866, 2867>>, <<2869, 2873>>, <<2877, 2877>>, <<2908, 2909>>, <<2911, 2913>>,
     <<2918, 2927>>, <<2929, 2935>>, <<2947, 2947>>, <<2949, 2954>>, <<2958, 2960>>, <<2962, 2965>>,
     <<2969, 2970>>, <<2972, 2972>>, <<2974, 2975>>, <<2979, 2980>>, <<2984, 2986>>, <<2990, 3001>>,
     <<3024, 3024>>, <<3046, 3058>>, <<3077, 3084>>, <<3086, 3088>>, <<3090, 3112>>, <<3114, 3129>>,
     <<3133, 3133>>, <<3160, 3162>>, <<3165, 3165>>, <<3168, 3169>>, <<3174, 3183>>, <<3192, 3198>>,
     <<3200, 3200>>, <<3205, 3212>>, <<3214, 3216>>, <<3218, 3240>>, <<3242, 3251>>, <<3253, 3257>>,
     <<3261, 3261>>, <<3293, 3294>>, <<3296, 3297>>, <<3302, 3311>>, <<3313, 3314>>, <<3332, 3340>>,
     <<3342, 3344>>, <<3346, 3386>>, <<3389, 3389>>, <<3406, 3406>>, <<3412, 3414>>, <<3416, 3425>>,
     <<3430, 3448>>, <<3450, 3455>>, <<3461, 3478>>, <<3482, 3505>>, <<3507, 3515>>, <<3517, 3517>>,
     <<3520, 3526>>, <<3558, 3567>>, <<3585, 3632>>, <<3634, 3635>>, <<3648, 3654>>, <<3664, 3673>>,
     <<3713, 3714>>, <<3716, 3716>>, <<3718, 3722>>, <<3724, 3747>>, <<3749, 3749>>, <<3751, 3760>>,
     <<3762, 3763>>, <<3773, 3773>>, <<3776, 3780>>, <<3782, 3782>>, <<3792, 3801>>, <<3804, 3807>>,
     <<3840, 3840>>, <<3872, 3891>>, <<3904, 3911>>, <<3913, 3948>>, <<3976, 3980>>, <<4096, 4138>>,
     <<4159, 4169>>, <<4176, 4181>>, <<4186, 4189>>, <<4193, 4193>>, <<4197, 4198>>, <<4206, 4208>>,
     <<4213, 4225>>, <<4238, 4238>>, <<4240, 4249>>, <<4256, 4293>>, <<4295, 4295>>, <<4301, 4301>>,
     <<4304, 4346>>, <<4348, 4680>>, <<4682, 4685>>, <<4688, 4694>>, <<4696, 4696>>, <<4698, 4701>>,
     <<4704, 4744>>, <<4746, 4749>>, <<4752, 4784>>, <<4786, 4789>>, <<4792, 4798>>, <<4800, 4800>>,
     <<4802, 4805>>, <<4808, 4822>>, <<4824, 4880>>, <<4882, 4885>>, <<4888, 4954>>, <<4969, 4988>>,
     <<4992, 5007>>, <<5024, 5109>>, <<5112, 5117>>, <<5121, 5740>>, <<5743, 5759>>, <<5761, 5786>>,
     <<5792, 5866>>, <<5870, 5880>>, <<5888, 5905>>, <<5919, 5937>>, <<5952, 5969>>, <<5984, 5996>>,
     <<5998, 6000>>, <<6016, 6067>>, <<6103, 6103>>, <<6108, 6108>>, <<6112, 6121>>, <<6128, 6137>>,
     <<6160, 6169>>, <<6176, 6264>>, <<6272, 6276>>, <<6279, 6312>>, <<6314, 6314>>, <<6320, 6389>>,
     <<6400, 6430>>, <<6470, 6509>>, <<6512, 6516>>, <<6528, 6571>>, <<6576, 6601>>, <<6608, 6618>>,
     <<6656, 6678>>, <<6688, 6740>>, <<6784, 6793>>, <<6800, 6809>>, <<6823, 6823>>, <<6917, 6963>>,
     <<6981, 6988>>, <<6992, 7001>>, <<7043, 7072>>, <<7086, 7141>>, <<7168, 7203>>, <<7232, 7241>>,
     <<7245, 7293>>, <<7296, 7304>>, <<7312, 7354>>, <<7357, 7359>>, <<7401, 7404>>, <<7406, 7411>>,
     <<7413, 7414>>, <<7418, 7418>>, <<7424, 7615>>, <<7680, 7957>>, <<7960, 7965>>, <<7968, 8005>>,
     <<8008, 8013>>, <<8016, 8023>>, <<8025, 8025>>, <<8027, 8027>>, <<8029, 8029>>, <<8031, 8061>>,
     <<8064, 8116>>, <<8118, 8124>>, <<8126, 8126>>, <<8130, 8132>>, <<8134, 8140>>, <<8144, 8147>>,
     <<8150, 8155>>, <<8160, 8172>>, <<8178, 8180>>, <<8182, 8188>>, <<8304, 8305>>, <<8308, 8313>>,
     <<8319, 8329>>, <<8336, 8348>>, <<8450, 8450>>, <<8455, 8455>>, <<8458, 8467>>, <<8469, 8469>>,
     <<8473, 8477>>, <<8484, 8484>>, <<8486, 8486>>, <<8488, 8488>>, <<8490, 8493>>, <<8495, 8505>>,
     <<8508, 8511>>, <<8517, 8521>>, <<8526, 8526>>, <<8528, 8585>>, <<9312, 9371>>, <<9450, 9471>>,
     <<10102, 10131>>, <<11264, 11492>>, <<11499, 11502>>, <<11506, 11507>>, <<11517, 11517>>, <<11520, 11557>>,
     <<11559, 11559>>, <<11565, 11565>>, <<11568, 11623>>, <<11631, 11631>>, <<11648, 11670>>, <<11680, 11686>>,
     <<11688, 11694>>, <<11696, 11702>>, <<11704, 11710>>, <<11712, 11718>>, <<11720, 11726>>, <<11728, 11734>>,
     <<11736, 11742>>, <<11823, 11823>>, <<12293, 12295>>, <<12321, 12329>>, <<12337, 12341>>, <<12344, 12348>>,
     <<12353, 12438>>, <<12445, 12447>>, <<12449, 12538>>, <<12540, 12543>>, <<12549, 12591>>, <<12593, 12686>>,
     <<12690, 12693>>, <<12704, 12735>>, <<12784, 12799>>, <<12832, 12841>>, <<12872, 12879>>, <<12881, 12895>>,
     <<12928, 12937>>, <<12977, 12991>>, <<13312, 19903>>, <<19968, 42124>>, <<42192, 42237>>, <<42240, 42508>>,
     <<42512, 42539>>, <<42560, 42606>>, <<42623, 42653>>, <<42656, 42735>>, <<42775, 42783>>, <<42786, 42888>>,
     <<42891, 42954>>, <<42960, 42961>>, <<42963, 42963>>, <<42965, 42969>>, <<42994, 43009>>, <<43011, 43013>>,
     <<43015, 43018>>, <<43020, 43042>>, <<43056, 43061>>, <<43072, 43123>>, <<43138, 43187>>, <<43216, 43225>>,
     <<43250, 43255>>, <<43259, 43259>>, <<43261, 43262>>, <<43264, 43301>>, <<43312, 43334>>, <<43360, 43388>>,
     <<43396, 43442>>, <<43471, 43481>>, <<43488, 43492>>, <<43494, 43518>>, <<43520, 43560>>, <<43584, 43586>>,
     <<43588, 43595>>, <<43600, 43609>>, <<43616, 43638>>, <<43642, 43642>>, <<43646, 43695>>, <<43697, 43697>>,
     <<43701, 43702>>, <<43705, 43709>>, <<43712, 43712>>, <<43714, 43714>>, <<43739, 43741>>, <<43744, 43754>>,
     <<43762, 43764>>, <<43777, 43782>>, <<43785, 43790>>, <<43793, 43798>>, <<43808, 43814>>, <<43816, 43822>>,
     <<43824, 43866>>, <<43868, 43881>>, <<43888, 44002>>, <<44016, 44025>>, <<44032, 55203>>, <<55216, 55238>>,
     <<55243, 55291>>, <<63744, 64109>>, <<64112, 64217>>, <<64256, 64262>>, <<64275, 64279>>, <<64285, 64285>>,
     <<64287, 64296>>, <<64298, 64310>>, <<64312, 64316>>, <<64318, 64318>>, <<64320, 64321>>, <<64323, 64324>>,
     <<64326, 64433>>, <<64467, 64829>>, <<64848, 64911>>, <<64914, 64967>>, <<65008, 65019>>, <<65136, 65140>>,
     <<65142, 65276>>, <<65296, 65305>>, <<65313, 65338>>, <<65345, 65370>>, <<65382, 65470>>, <<65474, 65479>>,
     <<65482, 65487>>, <<65490, 65495>>, <<65498, 65500>>, <<65536, 65547>>, <<65549, 65574>>, <<65576, 65594>>,
     <<65596, 65597>>, <<65599, 65613>>, <<65616, 65629>>, <<65664, 65786>>, <<65799, 65843>>, <<65856, 65912>>,
     <<65930, 65931>>, <<66176, 66204>>, <<66208, 66256>>, <<66273, 66299>>, <<66304, 66339>>, <<66349, 66378>>,
     <<66384, 66421>>, <<66432, 66461>>, <<66464, 66499>>, <<66504, 66511>>, <<66513, 66517>>, <<66560, 66717>>,
     <<66720, 66729>>, <<66736, 66771>>, <<66776, 66811>>, <<66816, 66855>>, <<66864, 66915>>, <<66928, 66938>>,
     <<66940, 66954>>, <<66956, 66962>>, <<66964, 66965>>, <<66967, 66977>>, <<66979, 66993>>, <<66995, 67001>>,
     <<67003, 67004>>, <<67072, 67382>>, <<67392, 67413>>, <<67424, 67431>>, <<67456, 67461>>, <<67463, 67504>>,
     <<67506, 67514>>, <<67584, 67589>>, <<67592, 67592>>, <<67594, 67637>>, <<67639, 67640>>, <<67644, 67644>>,
     <<67647, 67669>>, <<67672, 67702>>, <<67705, 67742>>, <<67751, 67759>>, <<67808, 67826>>, <<67828, 67829>>,
     <<67835, 67867>>, <<67872, 67897>>, <<67968, 68023>>, <<68028, 68047>>, <<68050, 68096>>, <<68112, 68115>>,
     <<68117, 68119>>, <<68121, 68149>>, <<68160, 68168>>, <<68192, 68222>>, <<68224, 68255>>, <<68288, 68295>>,
     <<68297, 68324>>, <<68331, 68335>>, <<68352, 68405>>, <<68416, 68437>>, <<68440, 68466>>, <<68472, 68497>>,
     <<68521, 68527>>, <<68608, 68680>>, <<68736, 68786>>, <<68800, 68850>>, <<68858, 68899>>, <<68912, 68921>>,
     <<69216, 69246>>, <<69248, 69289>>, <<69296, 69297>>, <<69376, 69415>>, <<69424, 69445>>, <<69457, 69460>>,
     <<69488, 69505>>, <<69552, 69579>>, <<69600, 69622>>, <<69635, 69687>>, <<69714, 69743>>, <<69745, 69746>>,
     <<69749, 69749>>, <<69763, 69807>>, <<69840, 69864>>, <<69872, 69881>>, <<69891, 69926>>, <<69942, 69951>>,
     <<69956, 69956>>, <<69959, 69959>>, <<69968, 70002>>, <<70006, 70006>>, <<70019, 70066>>, <<70081, 70084>>,
     <<70096, 70106>>, <<70108, 70108>>, <<70113, 70132>>, <<70144, 70161>>, <<70163, 70187>>, <<70272, 70278>>,
     <<70280, 70280>>, <<70282, 70285>>, <<70287, 70301>>, <<70303, 70312>>, <<70320, 70366>>, <<70384, 70393>>,
     <<70405, 70412>>, <<70415, 70416>>, <<70419, 70440>>, <<70442, 70448>>, <<70450, 70451>>, <<70453, 70457>>,
     <<70461, 70461>>, <<70480, 70480>>, <<70493, 70497>>, <<70656, 70708>>, <<70727, 70730>>, <<70736, 70745>>,
     <<70751, 70753>>, <<70784, 70831>>, <<70852, 70853>>, <<70855, 70855>>, <<70864, 70873>>, <<71040, 71086>>,
     <<71128, 71131>>, <<71168, 71215>>, <<71236, 71236>>, <<71248, 71257>>, <<71296, 71338>>, <<71352, 71352>>,
     <<71360, 71369>>, <<71424, 71450>>, <<71472, 71483>>, <<71488, 71494>>, <<71680, 71723>>, <<71840, 71922>>,
     <<71935, 71942>>, <<71945, 71945>>, <<71948, 71955>>, <<71957, 71958>>, <<71960, 71983>>, <<71999, 71999>>,
     <<72001, 72001>>, <<72016, 72025>>, <<72096, 72103>>, <<72106, 72144>>, <<72161, 72161>>, <<72163, 72163>>,
     <<72192, 72192>>, <<72203, 72242>>, <<72250, 72250>>, <<72272, 72272>>, <<72284, 72329>>, <<72349, 72349>>,
     <<72368, 72440>>, <<72704, 72712>>, <<72714, 72750>>, <<72768, 72768>>, <<72784, 72812>>, <<72818, 72847>>,
     <<72960, 72966>>, <<72968, 72969>>, <<72971, 73008>>, <<73030, 73030>>, <<73040, 73049>>, <<73056, 73061>>,
     <<73063, 73064>>, <<73066, 73097>>, <<73112, 73112>>, <<73120, 73129>>, <<73440, 73458>>, <<73648, 73648>>,
     <<73664, 73684>>, <<73728, 74649>>, <<74752, 74862>>, <<74880, 75075>>, <<77712, 77808>>, <<77824, 78894>>,
     <<82944, 83526>>, <<92160, 92728>>, <<92736, 92766>>, <<92768, 92777>>, <<92784, 92862>>, <<92864, 92873>>,
     <<92880, 92909>>, <<92928, 92975>>, <<92992, 92995>>, <<93008, 93017>>, <<93019, 93025>>, <<93027, 93047>>,
     <<93053, 93071>>, <<93760, 93846>>, <<93952, 94026>>, <<94032, 94032>>, <<94099, 94111>>, <<94176, 94177>>,
     <<94179, 94179>>, <<94208, 100343>>, <<100352, 101589>>, <<101632, 101640>>, <<110576, 110579>>, <<110581, 110587>>,
     <<110589, 110590>>, <<110592, 110882>>, <<110928, 110930>>, <<110948, 110951>>, <<110960, 111355>>, <<113664, 113770>>,
     <<113776, 113788>>, <<113792, 113800>>, <<113808, 113817>>, <<119520, 119539>>, <<119648, 119672>>, <<119808, 119892>>,
     <<119894, 119964>>, <<119966, 119967>>, <<119970, 119970>>, <<119973, 119974>>, <<119977, 119980>>, <<119982, 119993>>,
     <<119995, 119995>>, <<119997, 120003>>, <<120005, 120069>>, <<120071, 120074>>, <<120077, 120084>>, <<120086, 120092>>,
     <<120094, 120121>>, <<120123, 120126>>, <<120128, 120132>>, <<120134, 120134>>, <<120138, 120144>>, <<120146, 120485>>,
     <<120488, 120512>>, <<120514, 120538>>, <<120540, 120570>>, <<120572, 120596>>, <<120598, 120628>>, <<120630, 120654>>,
     <<120656, 120686>>, <<120688, 120712>>, <<120714, 120744>>, <<120746, 120770>>, <<120772, 120779>>, <<120782, 120831>>,
     <<122624, 122654>>, <<123136, 123180>>, <<123191, 123197>>, <<123200, 123209>>, <<123214, 123214>>, <<123536, 123565>>,
     <<123584, 123627>>, <<123632, 123641>>, <<124896, 124902>>, <<124904, 124907>>, <<124909, 124910>>, <<124912, 124926>>,
     <<124928, 125124>>, <<125127, 125135>>, <<125184, 125251>>, <<125259, 125259>>, <<125264, 125273>>, <<126065, 126123>>,
     <<126125, 126127>>, <<126129, 126132>>, <<126209, 126253>>, <<126255, 126269>>, <<126464, 126467>>, <<126469, 126495>>,
     <<126497, 126498>>, <<126500, 126500>>, <<126503, 126503>>, <<126505, 126514>>, <<126516, 126519>>, <<126521, 126521>>,
     <<126523, 126523>>, <<126530, 126530>>, <<126535, 126535>>, <<126537, 126537>>, <<126539, 126539>>, <<126541, 126543>>,
     <<126545, 126546>>, <<126548, 126548>>, <<126551, 126551>>, <<126553, 126553>>, <<126555, 126555>>, <<126557, 126557>>,
     <<126559, 126559>>, <<126561, 126562>>, <<126564, 126564>>, <<126567, 126570>>, <<126572, 126578>>, <<126580, 126583>>,
     <<126585, 126588>>, <<126590, 126590>>, <<126592, 126601>>, <<126603, 126619>>, <<126625, 126627>>, <<126629, 126633>>,
     <<126635, 126651>>, <<127232, 127244>>, <<130032, 130041>>, <<131072, 173791>>, <<173824, 177976>>, <<177984, 178205>>,
     <<178208, 183969>>, <<183984, 191456>>, <<194560, 195101>>, <<196608, 201546>>
  >>

\* the class \w of a str pattern
IsWord(c) ==
  IF IsCode(c)
  THEN The({ \E k \in 1..Len(word_ranges) :
               word_ranges[k][1] <= code /\ code <= word_ranges[k][2] :
             code \in {CodeOf(c)} })
  ELSE c \in AsciiLetters \cup DigitCls.cs \cup {"_"}

\* re.sub(r'[^\w\-_]', '_', filename) and filename[:100]
SafeName(filename) ==
  LET safe == [i \in 1..Len(filename) |->
                 IF IsWord(filename[i]) \/ filename[i] = "-" THEN filename[i] ELSE "_"]
  IN SubSeq(safe, 1, IF Len(safe) < NameMax THEN Len(safe) ELSE NameMax)

\* sanitize_filename: the name made of the last part of the path, or of the
\* netloc when the path has none; ValueError when urlparse raises
sanitize_filename(url) ==
  The({ IF parsed.raised THEN ValueError
        ELSE SafeName(IF Basename(parsed.path) # <<>> THEN Basename(parsed.path)
                      ELSE parsed.netloc) :
        parsed \in {urlparse(url)} })

\* fetch_url gave nothing
NoContent == <<"no content">>

\* scrape_link with the cleaned URL: whether it returns True, whether an
\* exception leaves it, and the records it writes. The record of a PDF is
\* written outside any try; what the writing of a page raises is caught
ScrapeCleaned(l, url) ==
  The({ LET name(prefix) == Chars(prefix) \o safe \o Chars(".txt")
            written == safe # ValueError /\ l.writable
            returned(ok, files) == [ok |-> ok, raised |-> FALSE, files |-> files]
        IN IF l.content = NoContent \/ l.content = <<>>
           THEN returned(FALSE, {})
           ELSE IF is_pdf_content(l.content)
                THEN The({ IF t # None /\ t # <<>>
                           THEN IF written
                                THEN returned(TRUE, {[name |-> name("pdf_"),
                                                      text |-> scrape_record(url, l.final_url, t)]})
                                ELSE [ok |-> FALSE, raised |-> TRUE, files |-> {}]
                           ELSE returned(FALSE, {}) :
                           t \in {extract_pdf_text(l.lib, l.pages)} })
                ELSE IF written
                     THEN returned(TRUE, {[name |-> name("web_"),
                                           text |-> scrape_record(url, l.final_url, l.content)]})
                     ELSE returned(FALSE, {}) :
        safe \in {sanitize_filename(url)} })

\* url = clean_url(url) comes first
scrape_link(l) == The({ScrapeCleaned(l, url) : url \in {clean_url(l.url)}})

LinkUrls ==
  { Chars("https://raft.github.io/raft.pdf"), Chars("http://x.com/y;"),
    Chars("https://www.youtube.com/watch?v=c"), Chars("http://x.com/a/paper-1.pdf."),
    Chars("https://x.com"),
    Chars("http://lamport.azurewebsites.net/tla/two-phase.htm..."),
    Chars("http://x.com/caf") \o <<"U+233">> \o Chars("\t;v=1?q#s") }

\* response.url: the URL of the request, or the one it was redirected to;
\* None comes with no content
FinalUrls == {Url, Chars("https://www.x.com/y/"), None}
LinkContents ==
  { NoContent, <<>>, Chars("%PDF-1.4 obj"), Chars("%PDF"), Chars("%PD"),
    Chars(" %PDF-1.4"), Chars("%pdf-1.4"), Chars("<p>Real text here.</p>") }
LinkLibs == {"pdfplumber", "PyPDF2", "none"}
LinkPages ==
  { <<>>, <<Chars("Intro")>>, <<Chars("Intro"), Chars("Body")>>, << <<>>, <<>> >>,
    <<Chars("Intro"), Raises>>, <<Chars("Intro"), None>>, <<None>> }

\* what scraping a link leaves alone
besideLink == <<recordVars, parserVars, sweepVars, pdfVars, scrapeVars>>

InitLink ==
  /\ RecordIdle
  /\ ScrapeIdle
  /\ ParserIdle
  /\ SweepIdle
  /\ PdfIdle
  /\ link \in {l \in [url : LinkUrls, content : LinkContents, final_url : FinalUrls,
                       lib : LinkLibs, pages : LinkPages, writable : BOOLEAN] :
                  l.content = NoContent <=> l.final_url = None}
  /\ saved = {}
  /\ counted = "pending"

\* main skips the links to videos
IsVideo(url) ==
  StartsWith(url, Chars("https://www.youtube.com")) \/ StartsWith(url, Chars("https://youtu.be"))

\* and the three PDFs it holds for scraped already
already_scraped ==
  { Chars("https://cedric.cnam.fr/fichiers/RC474.pdf"),
    Chars("https://raft.github.io/raft.pdf"),
    Chars("https://lamport.azurewebsites.net/pubs/disk-paxos.pdf;") }

SkipVideo ==
  /\ counted = "pending"
  /\ IsVideo(link.url)
  /\ counted' = "skipped"
  /\ UNCHANGED <<link, saved, besideLink>>

SkipScraped ==
  /\ counted = "pending"
  /\ ~IsVideo(link.url)
  /\ link.url \in already_scraped
  /\ counted' = "skipped"
  /\ UNCHANGED <<link, saved, besideLink>>

\* main counts the link by what scrape_link returns; an exception that
\* leaves scrape_link is caught by nothing in main
ScrapeLink ==
  /\ counted = "pending"
  /\ ~IsVideo(link.url)
  /\ link.url \notin already_scraped
  /\ \E r \in {scrape_link(link)} :
       /\ saved' = saved \cup r.files
       /\ counted' = IF r.raised THEN "raised"
                     ELSE IF r.ok THEN "successful" ELSE "failed"
  /\ UNCHANGED <<link, besideLink>>

NextLink ==
  \/ SkipVideo
  \/ SkipScraped
  \/ ScrapeLink

SpecLink == InitLink /\ [][NextLink]_vars

---------------------------------------------------------------------------
(* scrape_additional_links.py: the loop of main over LINKS *)

MaxLinks == 3

\* fetch_url: the body and the URL of a response with a 2xx status, and
\* (None, None) when requests.get raises (no connection, timeout) or
\* raise_for_status does
fetch_url_any_status(response) == <<response.body, response.url>>
fetch_url(response) ==
  IF response.kind = "ok" THEN <<response.body, response.url>> ELSE <<NoContent, None>>

\* what scrape_link is given for a link of LINKS: content, final_url =
\* fetch_url(url)
Fetched(l) ==
  [url |-> l.url, content |-> fetch_url(l.response)[1],
   final_url |-> fetch_url(l.response)[2], lib |-> l.lib, pages |-> l.pages,
   writable |-> l.writable]

\* links of LINKS, with what the network gives for each: the kind of the
\* answer, its body and the URL it came from, which is that of the request
\* unless the request was redirected
WebPage == Chars("<p>Real text here.</p>")
Answer(kind, body, url) == [kind |-> kind, body |-> body, url |-> Chars(url)]
LinkCase(url, response, ps, writable) ==
  [url |-> Chars(url), response |-> response, lib |-> "pdfplumber", pages |-> ps,
   writable |-> writable]
LinkCases ==
  { LinkCase("https://www.youtube.com/watch?v=cYenTPD7740",
             Answer("ok", WebPage, "https://www.youtube.com/watch?v=cYenTPD7740"),
             <<>>, TRUE),
    LinkCase("https://raft.github.io/raft.pdf",
             Answer("ok", Chars("%PDF-1.4 obj"), "https://raft.github.io/raft.pdf"),
             <<Chars("Intro")>>, TRUE),
    LinkCase("https://dl.acm.org/citation.cfm?id=214134",
             Answer("ok", WebPage, "https://dl.acm.org/doi/10.1145/214134"), <<>>, TRUE),
    LinkCase("https://dl.acm.org/citation.cfm?id=226647",
             Answer("ok", Chars("<p>Another page.</p>"),
                    "https://dl.acm.org/citation.cfm?id=226647"), <<>>, TRUE),
    LinkCase("https://github.com/Azure/RSL;", Answer("timeout", <<>>, ""), <<>>, TRUE),
    LinkCase("https://github.com/sudogandhi;", Answer("exception", <<>>, ""), <<>>, TRUE),
    LinkCase("https://github.com/byisystems/byihive.",
             Answer("status", Chars("<p>Not Found</p>"),
                    "https://github.com/byisystems/byihive"), <<>>, TRUE),
    LinkCase("https://github.com/Azure/RingMaster",
             Answer("ok", <<>>, "https://github.com/Azure/RingMaster"), <<>>, TRUE),
    LinkCase("http://lamport.azurewebsites.net/pubs/interprocess",
             Answer("ok", Chars("%PDF-1.4 obj"),
                    "https://lamport.azurewebsites.net/pubs/interprocess.pdf"),
             <<Chars("Intro"), Chars("Body")>>, TRUE),
    LinkCase("https://lamport.azurewebsites.net/tla/toolbox.html",
             Answer("ok", WebPage, "https://lamport.azurewebsites.net/tla/toolbox.html"),
             <<>>, FALSE),
    LinkCase("https://dl.acm.org/doi/10.1145/3087801.3087802",
             Answer("ok", Chars("%PDF-1.4 obj"),
                    "https://dl.acm.org/doi/pdf/10.1145/3087801.3087802"),
             <<Chars("Intro")>>, FALSE) }

\* the lists LINKS of at most MaxLinks links, no URL twice
LinkLists ==
  UNION { { ls \in [1..n -> LinkCases] :
              \A i, j \in 1..n : ls[i].url = ls[j].url => i = j } : n \in 0..MaxLinks }

\* what the loop of main leaves alone
besideScrape == <<recordVars, parserVars, sweepVars, pdfVars, linkVars>>

\* successful = 0, failed = 0, skipped = 0
InitScrape ==
  /\ RecordIdle
  /\ ParserIdle
  /\ SweepIdle
  /\ PdfIdle
  /\ LinkIdle
  /\ links \in LinkLists
  /\ visits = <<>>
  /\ successful = 0
  /\ failed = 0
  /\ skipped = 0
  /\ outdir = {}
  /\ total = NotPrinted

\* an exception left scrape_link and ended main at the link taken last
Stopped == visits # <<>> /\ visits[Len(visits)].how = "raised"

\* the link the loop takes next
Scraping == total = NotPrinted /\ ~Stopped /\ Len(visits) < Len(links)
NextLinkOf == links[Len(visits) + 1]
Visit(how) == visits' = Append(visits, [url |-> NextLinkOf.url, how |-> how])

\* open(filepath, 'w') and the writes: the file of that name holds the new
\* text, whatever it held
WriteFiles(d, files) ==
  {f \in d : \A g \in files : g.name # f.name} \cup files

\* skipped += 1 and continue, for a video and for a PDF scraped already
ScrapeSkip ==
  /\ Scraping
  /\ IsVideo(NextLinkOf.url) \/ NextLinkOf.url \in already_scraped
  /\ skipped' = skipped + 1
  /\ Visit("skipped")
  /\ UNCHANGED <<links, successful, failed, outdir, total, besideScrape>>

\* scrape_link returned True: successful += 1
ScrapeSaved ==
  /\ Scraping
  /\ ~IsVideo(NextLinkOf.url)
  /\ NextLinkOf.url \notin already_scraped
  /\ \E r \in {scrape_link(Fetched(NextLinkOf))} :
       /\ r.ok
       /\ outdir' = WriteFiles(outdir, r.files)
  /\ successful' = successful + 1
  /\ Visit("successful")
  /\ UNCHANGED <<links, failed, skipped, total, besideScrape>>

\* scrape_link returned False: failed += 1
ScrapeFailed ==
  /\ Scraping
  /\ ~IsVideo(NextLinkOf.url)
  /\ NextLinkOf.url \notin already_scraped
  /\ \E r \in {scrape_link(Fetched(NextLinkOf))} : ~r.ok /\ ~r.raised
  /\ failed' = failed + 1
  /\ Visit("failed")
  /\ UNCHANGED <<links, successful, skipped, outdir, total, besideScrape>>

\* an exception left scrape_link: nothing in main catches it, no counter is
\* incremented and neither the rest of LINKS nor the summary is reached
ScrapeRaised ==
  /\ Scraping
  /\ ~IsVideo(NextLinkOf.url)
  /\ NextLinkOf.url \notin already_scraped
  /\ scrape_link(Fetched(NextLinkOf)).raised
  /\ Visit("raised")
  /\ UNCHANGED <<links, successful, failed, skipped, outdir, total, besideScrape>>

\* the summary after the loop
ScrapeSummary ==
  /\ total = NotPrinted
  /\ ~Stopped
  /\ Len(visits) = Len(links)
  /\ total' = successful + failed + skipped
  /\ UNCHANGED <<links, visits, successful, failed, skipped, outdir, besideScrape>>

NextScrape ==
  \/ ScrapeSkip
  \/ ScrapeSaved
  \/ ScrapeFailed
  \/ ScrapeRaised
  \/ ScrapeSummary

SpecScrape == InitScrape /\ [][NextScrape]_vars

---------------------------------------------------------------------------
(* fix_github.py, and the audit and the fix over the records of GitHub pages *)

FixGoodLen == 1000
RawMin == 100

GithubRe(kind) ==
  Re(Lit(Chars("https://github.com/")) \o NotPlus({"/"}) \o Lit(Chars("/"))
       \o NotPlus({"/"}) \o Lit(Chars("/") \o Chars(kind) \o Chars("/"))
       \o NotPlus({"/"}) \o Lit(Chars("/")) \o NotPlus({"\n"}))
GithubRepoRe ==
  Re(Lit(Chars("https://github.com/")) \o NotPlus({"/"}) \o Lit(Chars("/"))
       \o NotPlus({"/"}) \o Opt({"/"}) \o Eol)

\* convert_github_to_raw returns a URL and not None
CanConvertToRaw(url) ==
  \/ Contains(url, Chars("raw.githubusercontent.com"))
  \/ /\ Contains(url, Chars("github.com"))
     /\ \/ ReMatch(GithubRe("blob"), url)
        \/ ReMatch(GithubRe("tree"), url)
        \/ ReMatch(GithubRepoRe, url)

\* content.split('=' * 10, 1)[1]: what follows the first ten '='
AfterSepMark(content) ==
  LET ms == {i \in 1..(Len(content) - SepDetect + 1) :
               SubSeq(content, i, i + SepDetect - 1) = SepMark}
  IN IF ms = {} THEN <<>>
     ELSE From(content, (CHOOSE i \in ms : \A j \in ms : i <= j) + SepDetect)

\* fix_github_file, given what fetch_content returns for the raw URL and for
\* the alternate URL: whether it wrote the file, its message, and the file
FixRead(bytes, content, fetched) ==
  LET lines == SplitLines(content)
      final_url == LastUrlValue(lines, Len(lines), FinalPrefix)
      source_url == LastUrlValue(lines, Len(lines), SourcePrefix)
      body == AfterSepMark(content)
      usable(c) == c # None /\ Len(c) >= RawMin
      raw_content == IF ~usable(fetched.raw) /\ Contains(final_url, Chars("/blob/"))
                     THEN fetched.alt ELSE fetched.raw
      no(msg) == [ok |-> FALSE, msg |-> msg, out |-> bytes]
  IN IF final_url = <<>> THEN no("No URL")
     ELSE IF ~Contains(final_url, Chars("github.com")) THEN no("Not GitHub")
     ELSE IF ~Contains(body, Chars("Search code")) /\ Len(body) > FixGoodLen
          THEN no("Already good")
     ELSE IF ~CanConvertToRaw(final_url) THEN no("Cannot convert URL")
     ELSE IF ~usable(raw_content) THEN no("Fetch failed or empty")
     ELSE [ok |-> TRUE, msg |-> "Fixed",
           out |-> scrape_record(IF source_url # <<>> THEN source_url ELSE final_url,
                                 final_url, Strip(raw_content))]

\* content = f.read() comes first
fix_github_file(bytes, fetched) ==
  The({FixRead(bytes, content, fetched) : content \in {ReadText(bytes)}})

\* two of the files of github_files, both in the directory
FixNames == <<"web_9.txt", "web_RSL.txt">>

\* records of pages with bodies around the two thresholds
AuditUrls ==
  { Chars("https://github.com/Azure/RSL"), Chars("https://github.com/tlaplus/Examples/issues/9"),
    Chars("http://x.com/y") }
AuditBodies ==
  { Repeat("x", 77), Repeat("x", 100), Repeat("x", 150), Repeat("x", 950),
    Repeat("x", 1001), Chars("Search code") \o NL \o Repeat("x", 1001) }
AuditFiles ==
  {[kind |-> "text", text |-> scrape_record(u, u, b)] : u \in AuditUrls, b \in AuditBodies}

\* what fetch_content returns: None, an error page, the file
RawCode == Repeat("c", RawMin)
FetchAnswers ==
  [raw : {None, Chars("404: Not Found"), RawCode}, alt : {None, RawCode}]

InitAudit ==
  /\ RecordIdle
  /\ ScrapeIdle
  /\ LinkIdle
  /\ ParserIdle
  /\ PdfIdle
  /\ dir \in [{FixNames[i] : i \in DOMAIN FixNames} -> AuditFiles]
  /\ script \in {"audit_files", "fix_github"}
  /\ todo = FixNames
  /\ done = <<>>
  /\ phase = "running"

\* fix_github.main calls fix_github_file with no try around it, and
\* fix_github_file reads without errors='replace'
FixGithub ==
  \E fetched \in FetchAnswers :
    /\ Sweeping("fix_github")
    /\ IF ReadRaises(Head(todo), TRUE) THEN Uncaught
       ELSE LET r == fix_github_file(dir[Head(todo)].text, fetched)
            IN IF r.ok THEN Taken(r.out, r.msg) ELSE Seen(r.msg)
    /\ UNCHANGED besideSweep

NextAudit ==
  \/ SweepAudit
  \/ FixGithub
  \/ SweepReport

SpecAudit == InitAudit /\ [][NextAudit]_vars

\* ---------------------------------------------------------------------------
\* The sweeps over a directory of any size, down to the empty one, and the
\* batch converter over a folder of PDFs
\* ---------------------------------------------------------------------------

\* sorted([f for f in os.listdir(RAW_PDF_DIR) if f.endswith('.pdf')])
PdfNames == <<"a.pdf", "b.pdf", "c.pdf", "d.pdf">>

\* pdf_file.replace('.pdf', '.txt')
TxtName(pdf_file) ==
  CASE pdf_file = "a.pdf" -> "a.txt"
    [] pdf_file = "b.pdf" -> "b.txt"
    [] pdf_file = "c.pdf" -> "c.txt"
    [] pdf_file = "d.pdf" -> "d.txt"

\* a PDF of the raw folder: the texts of its pages
BatchPdfs ==
  { [kind |-> "pdf", pages |-> <<Chars("Intro"), Chars("Body")>>],
    [kind |-> "pdf", pages |-> <<Chars("Intro"), Raises>>],
    [kind |-> "pdf", pages |-> <<Raises>>],
    [kind |-> "pdf", pages |-> <<>>] }

RECURSIVE pdf_text(_, _)
\* text after the loop over the first n pages
pdf_text(ps, n) ==
  IF n = 0 THEN <<>> ELSE pdf_text(ps, n - 1) \o PageChunk(n - 1, ps[n])

BatchScripts == {"extract_substance", "final_extract", "batch_convert_pymupdf"}

\* the names the script lists in a folder of n files
BatchNames(s, n) ==
  SubSeq(IF s = "batch_convert_pymupdf" THEN PdfNames ELSE GlobNames, 1, n)

InitBatch ==
  /\ RecordIdle
  /\ ScrapeIdle
  /\ LinkIdle
  /\ ParserIdle
  /\ PdfIdle
  /\ script \in BatchScripts
  /\ \E n \in 0..MaxFiles :
       /\ todo = BatchNames(script, n)
       /\ dir \in [{todo[i] : i \in 1..n} ->
                    IF script = "batch_convert_pymupdf" THEN BatchPdfs ELSE DirFiles]
  /\ done = <<>>
  /\ phase = "running"

\* one turn of the loop of batch_convert_pymupdf, whose body is in
\* try/except Exception: the text is written next to the other outputs and
\* the PDF counted as successful, or the PDF is counted as failed
BatchConvert ==
  /\ Sweeping("batch_convert_pymupdf")
  /\ LET ps == dir[Head(todo)].pages
     IN IF \E k \in 1..Len(ps) : ps[k] = Raises
        THEN Seen("failed")
        ELSE /\ dir' = (TxtName(Head(todo)) :>
                         [kind |-> "text", text |-> pdf_text(ps, Len(ps))]) @@ dir
             /\ done' = Append(done, [name |-> Head(todo), result |-> "successful"])
             /\ todo' = Tail(todo)
             /\ UNCHANGED <<script, phase>>
  /\ UNCHANGED besideSweep

\* the folder of the manual extraction is not there: os.listdir raises
NoFolder == [there |-> FALSE, names |-> <<>>, files |-> <<>>]

\* the folder REGEX_DIR: the names as os.listdir gives them, and what each
\* file holds; a byte that is not UTF-8 is written Replacement
RegexFile(text) == [kind |-> "text", text |-> Chars(text)]
RegexFolder(names, files) == [there |-> TRUE, names |-> names, files |-> files]
RegexDirs ==
  { NoFolder,
    RegexFolder(<<>>, <<>>),
    RegexFolder(<<"pdf_a_github.txt", "notes.md", "nano-o_MultiPaxos_github.txt",
                  "mryndzionek_tlaplus_specs_b_github.txt">>,
                ("pdf_a_github.txt" :>
                   RegexFile("--- Page 1 ---\nIntro\r\n--- Page 2 ---\nBody"))
                  @@ ("notes.md" :> RegexFile("Intro Body"))
                  @@ ("nano-o_MultiPaxos_github.txt" :> RegexFile("Intro Body"))
                  @@ ("mryndzionek_tlaplus_specs_b_github.txt" :>
                        RegexFile("Intro Body"))),
    RegexFolder(<<"pdf_b_github.txt", "pdf_a_github.txt">>,
                ("pdf_b_github.txt" :> RegexFile(""))
                  @@ ("pdf_a_github.txt" :>
                        [kind |-> "undecodable",
                         text |-> <<Replacement>> \o Chars("Intro")])) }

\* open(path, 'r', encoding='utf-8', errors='ignore') and f.read(): the bytes
\* that are not UTF-8 are left out
ReadIgnoring(f) ==
  ReadText(IF f.kind = "undecodable"
           THEN SelectSeq(f.text, LAMBDA c : c # Replacement)
           ELSE f.text)

\* the name of the PDF looked for, for a file of the manual extraction
PdfNameOf(regex_file) ==
  LET stem(prefix) ==
        Replace(Replace(Chars(regex_file), Chars(prefix), <<>>),
                Chars("_github.txt"), Chars(".pdf"))
      pdf_name == IF StartsWith(Chars(regex_file), Chars("mryndzionek"))
                  THEN stem("mryndzionek_tlaplus_specs_")
                  ELSE IF StartsWith(Chars(regex_file), Chars("nano-o"))
                       THEN Chars("MultiPaxos.pdf")
                       ELSE stem("pdf_")
  IN Str(pdf_name, Len(pdf_name))

\* pdf_name.replace('.pdf', '.txt')
TxtNameOf(pdf_name) ==
  LET txt == Replace(Chars(pdf_name), Chars(".pdf"), Chars(".txt"))
  IN Str(txt, Len(txt))

\* the file is in the raw folder, and in the output folder
InRaw(name) == name \in DOMAIN dir /\ dir[name].kind = "pdf"
InOutput(name) == name \in DOMAIN dir /\ dir[name].kind = "text"

\* the files of the manual extraction that are compared, in the order of the
\* listing, each with the name of its PDF: those that end in '.txt' and whose
\* PDF is in the raw folder and was converted
Compared(regex) ==
  SelectSeq([i \in 1..Len(regex.names) |->
               [regex_file |-> regex.names[i], pdf_name |-> PdfNameOf(regex.names[i])]],
            LAMBDA c : /\ EndsWith(Chars(c.regex_file), Chars(".txt"))
                       /\ InRaw(c.pdf_name)
                       /\ InOutput(TxtNameOf(c.pdf_name)))

\* what is put on the list of matches or of differences for one file; the
\* diff_pct of the entry is the quotient the status is taken from
Comparison(regex, c) ==
  The({ LET pymupdf_chars == chars[1]
            regex_chars == chars[2]
            larger == IF pymupdf_chars > regex_chars THEN pymupdf_chars ELSE regex_chars
            char_diff == larger - (IF pymupdf_chars > regex_chars THEN regex_chars
                                   ELSE pymupdf_chars)
        IN [file |-> c.pdf_name, pymupdf_chars |-> pymupdf_chars,
            regex_chars |-> regex_chars,
            status |-> IF 10 * char_diff < larger \/ larger = 0 THEN "SIMILAR"
                       ELSE "DIFFERENT"] :
        chars \in {<<Len(ReadIgnoring(dir[TxtNameOf(c.pdf_name)])),
                     Len(ReadIgnoring(regex.files[c.regex_file]))>>} })

comparison_stats(regex) ==
  The({ [total_compared |-> Len(each),
         matches |-> SelectSeq(each, LAMBDA c : c.status = "SIMILAR"),
         differences |-> SelectSeq(each, LAMBDA c : c.status = "DIFFERENT")] :
        each \in {The({ [i \in 1..Len(compared) |-> Comparison(regex, compared[i])] :
                        compared \in {Compared(regex)} })} })

RECURSIVE SumOf(_, _)
\* the sum of the first n numbers of a list
SumOf(ns, n) == IF n = 0 THEN 0 ELSE SumOf(ns, n - 1) + ns[n]

\* stats after the loop, without the times
conversion_stats ==
  The({ [total |-> Len(done),
         successful |-> Len(files),
         failed |-> Counted("failed"),
         total_chars |-> SumOf([i \in 1..Len(files) |-> files[i].chars], Len(files)),
         total_pages |-> SumOf([i \in 1..Len(files) |-> files[i].pages], Len(files)),
         errors |-> [i \in 1..Counted("failed") |->
                      SelectSeq(done, LAMBDA d : d.result = "failed")[i].name],
         files |-> files] :
        files \in {The({ [i \in 1..Len(good) |->
                            [filename |-> good[i].name,
                             pages |-> Len(dir[good[i].name].pages),
                             chars |-> Len(dir[TxtNameOf(good[i].name)].text)]] :
                         good \in {SelectSeq(done, LAMBDA d : d.result = "successful")} })} })

\* the divisions of the summary: by stats['total'] and then by
\* stats['successful']
BatchReportRaises == Len(done) = 0 \/ Counted("successful") = 0

\* the lines after the loop of batch_convert_pymupdf: the summary, whose
\* ZeroDivisionError nothing catches, the comparison with the manual
\* extraction, and _conversion_summary.json written to the output folder
BatchReport ==
  \E regex \in RegexDirs :
    /\ script = "batch_convert_pymupdf"
    /\ phase = "running"
    /\ todo = <<>>
    /\ IF BatchReportRaises \/ ~regex.there
       THEN phase' = "aborted" /\ UNCHANGED dir
       ELSE /\ phase' = "reported"
            /\ dir' = ("_conversion_summary.json" :>
                         [kind |-> "summary",
                          conversion_stats |-> conversion_stats,
                          comparison_stats |-> comparison_stats(regex)]) @@ dir
    /\ UNCHANGED <<script, todo, done, besideSweep>>

NextBatch ==
  \/ SweepExtractSubstance
  \/ SweepFinalExtract
  \/ BatchConvert
  \/ SweepReport
  \/ BatchReport

SpecBatch == InitBatch /\ [][NextBatch]_vars

---------------------------------------------------------------------------
(* What the properties speak of *)

Range(seq) == {seq[i] : i \in DOMAIN seq}

\* a line of at least ten '=' and nothing else
IsSepLine(line) == Len(line) >= SepDetect /\ \A i \in 1..Len(line) : line[i] = "="

\* the file begins with the two URL lines and a separator line
HasFullHeader(f) ==
  LET l == SplitLines(f)
  IN /\ Len(l) >= 3
     /\ StartsWith(l[1], Chars("Source URL: "))
     /\ StartsWith(l[2], Chars("Final URL: "))
     /\ IsSepLine(l[3])

\* the record format: no URL lines or the two of them, then the separator line,
\* then a blank line, then the body
Conforms(f) ==
  LET l == SplitLines(f)
  IN \/ HasFullHeader(f) /\ Len(l) >= 4 /\ l[4] = <<>>
     \/ Len(l) >= 2 /\ IsSepLine(l[1]) /\ l[2] = <<>>

\* the lines of the body: those after the first separator line and the blank
\* line that follows it, or all lines when the text has no separator line
BodyLinesOf(f) ==
  LET l == SplitLines(f)
      seps == {i \in 1..Len(l) : IsSepLine(l[i])}
      s == IF seps = {} THEN 0 ELSE CHOOSE i \in seps : \A j \in seps : i <= j
  IN IF s = 0 THEN l
     ELSE IF s < Len(l) /\ l[s + 1] = <<>> THEN From(l, s + 2)
     ELSE From(l, s + 1)

BodyOf(f) == Join(BodyLinesOf(f), NL)

\* the lines a filter wrote after the header: none when the body is empty
OutLines(f) == IF BodyOf(f) = <<>> THEN <<>> ELSE BodyLinesOf(f)

HeaderPasses ==
  {"extract_substance", "final_extract", "cleanup_nav", "polish_files",
   "aggressive_clean", "clean_github_ui"}
FormatPasses == {"extract_substance", "final_extract", "cleanup_nav", "polish_files"}
FilterNames == {"extract_substance", "final_extract"}

---------------------------------------------------------------------------
(* The properties *)

\* C1: a pass that rewrites a record that begins with the two URL lines and a
\* separator line writes the same two lines back as the first two lines of the
\* file, whatever the body is and whatever passes ran before.
HeaderKeptVerbatim ==
  (last \in HeaderPasses /\ outcome = "written" /\ HasFullHeader(prev))
    => /\ Len(SplitLines(file)) >= 2
       /\ SplitLines(file)[1] = SplitLines(prev)[1]
       /\ SplitLines(file)[2] = SplitLines(prev)[2]

\* C2: every record conforms to the record format: the writers' files do, and a
\* conforming file, one with no URL lines included, still conforms after
\* extract_substance, final_extract, cleanup_nav or polish_files rewrote it.
FormatKept ==
  /\ last = "none" => Conforms(file)
  /\ (last \in FormatPasses /\ Conforms(prev)) => Conforms(file)

InLines == BodyLinesOf(ReadText(prev))
Punctuated(line) == \E i \in 1..Len(line) : line[i] \in {".", "!", "?"}
IsSentence(line) == Punctuated(line) /\ NumWords(line) >= MinWords

\* the text of a kept line is in the output; an empty text leaves nothing to see
KeptAs(text) == text = <<>> \/ text \in Range(OutLines(file))
KeptSomehow(stripped) ==
  \/ KeptAs(stripped)
  \/ KeptAs(LooseClean(stripped))
  \/ KeptAs(StrictClean(stripped))

\* C3 as stated: both filters keep every line with terminal punctuation and at
\* least three words, unless it is shorter than 30 characters and holds a
\* denylisted keyword.
SentenceRetainedByBoth ==
  last \in FilterNames =>
    \A i \in DOMAIN InLines :
      LET stripped == Strip(InLines[i])
      IN IsSentence(InLines[i]) =>
           \/ Len(stripped) < NavMaxLen
                /\ (HasNavWord(stripped) \/ HasStrictWord(stripped))
           \/ KeptSomehow(stripped)

\* C3 as amended: extract_substance keeps, markdown cleaned, every line with
\* terminal punctuation and at least three words unless it is shorter than 30
\* characters and holds a navigation keyword; final_extract keeps it unless it
\* has no ASCII letter, holds one of its own keywords at any length, holds
\* 'http' and '://', or has more matches of the bracket pattern of
\* is_real_sentence than half its words.
SentenceRetained ==
  \A i \in DOMAIN InLines :
    LET stripped == Strip(InLines[i])
    IN IsSentence(InLines[i]) =>
         /\ last = "extract_substance" =>
              \/ Len(stripped) < NavMaxLen /\ HasNavWord(stripped)
              \/ KeptAs(LooseClean(stripped))
         /\ last = "final_extract" =>
              \/ ~ReSearch(LetterRe, stripped)
              \/ HasStrictWord(stripped)
              \/ HasUrl(stripped)
              \/ SymbolDominated(stripped)
              \/ KeptAs(StrictClean(stripped))

\* final_extract kept a plain sentence of three words, and dropped nothing of it
SentenceRetainedWitness ==
  /\ last = "final_extract"
  /\ Chars("Real sentence here.") \in Range(InLines)
  /\ Chars("Real sentence here.") \in Range(OutLines(file))

LongEnough(line) == Len(Strip(line)) >= MinLineLen

\* the record without the body lines of fewer than three characters
WithoutShort(f) ==
  LET l == SplitLines(f)
      body == BodyLinesOf(f)
  IN Join(SubSeq(l, 1, Len(l) - Len(body)) \o SelectSeq(body, LongEnough), NL)

\* C4: neither filter emits a body line whose stripped length is less than 3:
\* it writes no more lines than the body has lines of three characters or more,
\* and it writes what it writes for the record without the short lines.
ShortLineDropped ==
  /\ last \in FilterNames =>
       Len(OutLines(file))
         <= Cardinality({i \in DOMAIN InLines : LongEnough(InLines[i])})
  /\ last = "extract_substance" => file = extract_substance(WithoutShort(prev))
  /\ last = "final_extract" => file = final_extract(WithoutShort(prev))

\* extract_substance met a line of two characters that ends a sentence, and
\* wrote the rest of the body
ShortLineDroppedWitness ==
  /\ last = "extract_substance"
  /\ \E i \in DOMAIN InLines :
       /\ Strip(InLines[i]) # <<>>
       /\ ~LongEnough(InLines[i])
       /\ Punctuated(InLines[i])
  /\ OutLines(file) # <<>>

IsHeadingOrCode(stripped) ==
  \/ StartsWith(stripped, Chars("#"))
  \/ Contains(stripped, <<BT, BT, BT>>)
  \/ StartsWith(stripped, Chars("def "))
  \/ StartsWith(stripped, Chars("class "))

\* C5: both filters keep every line that starts with '#', holds a fence marker
\* or starts with 'def ' or 'class ', whatever the drop rules say of it.
HeadingAndCodeKept ==
  last \in FilterNames =>
    \A i \in DOMAIN InLines :
      IsHeadingOrCode(Strip(InLines[i])) => KeptSomehow(Strip(InLines[i]))

LinkPasses == {"extract_substance", "final_extract", "polish_files"}
LinkLine == Chars("See [here](http://x.com/y) for details.")
LinkText == Chars("See here for details.")

\* C8: a pass that cleans markdown writes the line
\* 'See [here](http://x.com/y) for details.' as 'See here for details.', and
\* leaves no '[text](url)' in the body it writes for a body without images.
LinkBecomesText ==
  last \in LinkPasses =>
    /\ LinkLine \in Range(InLines) => LinkText \in Range(OutLines(file))
    /\ ~Contains(BodyOf(prev), Chars("![")) => ~ReSearch(LinkRe, BodyOf(file))

ImagePasses == {"extract_substance", "aggressive_clean", "polish_files"}
ImageText == Chars("![logo](u)")
AltText == Chars("logo")

\* C9: when a pass that strips markup has written a record whose body held the
\* image '![logo](u)' and no other '!', the body it wrote holds neither a '!'
\* nor the alt text.
ImageLeavesNothing ==
  (last \in ImagePasses /\ outcome = "written" /\ Contains(BodyOf(prev), ImageText))
    => /\ ~Contains(BodyOf(file), Chars("!"))
       /\ ~Contains(BodyOf(file), AltText)

\* the length of a text without markup, its white space collapsed
VisibleLen(text) ==
  LET words == NumWords(text)
  IN Cardinality({i \in 1..Len(text) : text[i] \notin WS})
       + (IF words > 0 THEN words - 1 ELSE 0)

\* C6: the aggressive_clean sweep removes every record whose body has fewer
\* than 150 characters of visible text, and rewrites a record only when its
\* body has at least 150.
ThinRecordRemoved ==
  last = "aggressive_clean" =>
    /\ VisibleLen(BodyOf(prev)) < AggressiveMin => outcome = "deleted" /\ ~present
    /\ outcome = "written" => VisibleLen(BodyOf(prev)) >= AggressiveMin

ThresholdPasses == {"aggressive_clean", "clean_external_links", "clean_github_ui"}
MinOf(pass) ==
  IF pass = "aggressive_clean" THEN AggressiveMin
  ELSE IF pass = "clean_external_links" THEN ExternalMin
  ELSE GithubMin

\* the sweep measured the cleaned content of the record against its threshold
Measured == last \in ThresholdPasses /\ measured # NotMeasured

\* C7 as stated: a sweep with a threshold leaves each record whose cleaned
\* content it measured overwritten when the content meets the threshold and
\* deleted when it does not, so no record below the threshold stays in the
\* directory.
WrittenOrDeleted ==
  Measured =>
    IF measured >= MinOf(last)
    THEN outcome = "written" /\ present
    ELSE outcome = "deleted" /\ ~present

\* C7 as amended: each sweep overwrites the record when the cleaned content it
\* measured meets its threshold; below it aggressive_clean deletes the record,
\* while clean_external_links and clean_github_ui skip it and leave the file
\* in the directory as it was.
ThresholdOutcome ==
  Measured =>
    IF measured >= MinOf(last)
    THEN outcome = "written" /\ present
    ELSE IF last = "aggressive_clean"
         THEN outcome = "deleted" /\ ~present
         ELSE outcome = "skipped" /\ present /\ file = prev

\* clean_github_ui met a record whose cleaned content is below its threshold
ThresholdOutcomeWitness ==
  /\ last = "clean_github_ui"
  /\ measured >= 0
  /\ measured < GithubMin
  /\ outcome = "skipped"

\* the words of a text
WordsOf(text) ==
  LET n == Len(text)
      ends == {q \in (1..n) \X (1..n) :
                 /\ q[1] <= q[2]
                 /\ \A k \in q[1]..q[2] : text[k] \notin WS
                 /\ q[1] = 1 \/ text[q[1] - 1] \in WS
                 /\ q[2] = n \/ text[q[2] + 1] \in WS}
  IN {SubSeq(text, q[1], q[2]) : q \in ends}

\* C10: for the page <nav>N</nav><article><h1>T</h1><p>S</p></article>, what
\* the substance filter writes for the text of ContentExtractor holds the
\* heading marker and the sentence S, and no word of the nav text N.
NavTextDropped ==
  last = "extract_substance" =>
    \A n \in HtmlNav, t \in HtmlTitle, s \in HtmlSentence :
      orig = Page(n, t, s) =>
        /\ Contains(file, Chars("### H1"))
        /\ Contains(file, s)
        /\ WordsOf(n) \cap WordsOf(file) = {}


\* the step is the delivery of a text node
TextDelivered == event'.t = "data" /\ fed' = fed + 1

\* an open element carries a class of the denylist
InIgnoredClass == \E i \in 1..Len(opened) : IgnoredClass(opened[i].cls)

\* C11: a text node between a start tag whose class attribute contains a
\* denylisted substring and that tag's matching end tag is never appended to
\* the extracted content
IgnoredClassTextSkipped ==
  [][TextDelivered /\ InIgnoredClass => ext'.content = ext.content]_vars

\* an open element is one of the junk containers of skip_tags: script, style,
\* noscript and iframe; meta has no content
InSkipContainer ==
  \E i \in 1..Len(opened) : opened[i].tag \in skip_tags \ {Chars("meta")}

\* C17: a text node delivered after the start tag of a container in skip_tags
\* and before that container's end tag is never appended to the extracted
\* content, whatever skip-tag start or end tags occur in between
SkipContainerTextSkipped ==
  [][TextDelivered /\ InSkipContainer => ext'.content = ext.content]_vars

\* the number of times the loop took the file and went through its body
TimesProcessed(f) ==
  Cardinality({i \in 1..Len(done) : done[i].name = f /\ done[i].result # "error"})

\* C12: in every sweep script, when processing one file raises, every other
\* matching file is still processed exactly once and the sweep runs to its
\* final report: no sweep is aborted, and at the report every file that can be
\* read has been processed once
NoFailureAbortsSweep ==
  /\ phase # "aborted"
  /\ phase = "reported" =>
       \A i \in 1..MaxFiles :
         dir[SweepNames[i]].kind = "text" => TimesProcessed(SweepNames[i]) = 1

\* the step runs once more the pass that ran last
SamePassAgain(p) == last = p /\ last' = p /\ budget' = budget - 1

\* C13: each filter pass is idempotent on whole files: running the same pass
\* (extract_substance, final_extract, cleanup_nav or polish_files) a second
\* time in a row leaves the file as the first run wrote it
PassIdempotent ==
  [][\A p \in FilterNames \cup {"cleanup_nav", "polish_files"} :
       SamePassAgain(p) => file' = file]_vars

\* '--- Page k ---\n' with the number of the page counted from 1
MarkerOf(k) == Chars("--- Page ") \o Digits(k) \o Chars(" ---") \o NL

RECURSIVE MarkedPages(_, _)
\* for the pages 1..n in increasing order, '\n--- Page k ---\n' and the text of
\* page k, for each page k that has text
MarkedPages(ps, n) ==
  IF n = 0 THEN <<>>
  ELSE MarkedPages(ps, n - 1)
         \o IF ps[n] = <<>> THEN <<>> ELSE NL \o MarkerOf(n) \o ps[n]

\* C14: the output of the PyMuPDF converter is the concatenation, in
\* increasing page order, of '\n--- Page k ---\n' followed by the text of page
\* k for each page k with text; a page without text adds neither marker nor
\* text; for the pages 'Intro' and 'Body' the output holds
\* '--- Page 1 ---\nIntro' and then '--- Page 2 ---\nBody'
PageMarkersInOrder ==
  /\ conv = "reading" => doctext = MarkedPages(pages, pageno)
  /\ conv = "converted" =>
       /\ outfile = MarkedPages(pages, Len(pages))
       /\ pages = <<Chars("Intro"), Chars("Body")>> =>
            Contains(outfile, MarkerOf(1) \o Chars("Intro") \o NL
                                \o MarkerOf(2) \o Chars("Body"))

\* a PDF with a page without text between two pages with text has been
\* converted
PageMarkersInOrderWitness ==
  /\ conv = "converted"
  /\ pages = <<Chars("Intro"), <<>>, Chars("Body")>>
  /\ outfile = NL \o Chars("--- Page 1 ---") \o NL \o Chars("Intro")
                 \o NL \o Chars("--- Page 3 ---") \o NL \o Chars("Body")

\* C15: when text extraction raises on one page, the converter skips only
\* that page: the PDF is counted as converted, and the output holds the text
\* of every other page under its marker
RaisingPageSkipped ==
  /\ conv # "failed"
  /\ conv = "converted" =>
       \A k \in 1..Len(pages) :
         pages[k] \notin {<<>>, Raises} => Contains(outfile, MarkerOf(k) \o pages[k])

\* the first 4 bytes of what was fetched are '%PDF'
HasPdfMagic ==
  /\ link.content # NoContent
  /\ Len(link.content) >= 4
  /\ <<link.content[1], link.content[2], link.content[3], link.content[4]>>
       = <<"%", "P", "D", "F">>

\* something was fetched that is not a PDF
IsOtherContent == link.content \notin {NoContent, <<>>} /\ ~HasPdfMagic

\* the PDF text extraction gave no text
NothingExtracted == extract_pdf_text(link.lib, link.pages) \in {None, <<>>}

Named(f, prefix) == StartsWith(f.name, Chars(prefix)) /\ EndsWith(f.name, Chars(".txt"))

\* C16: scrape_link takes the content for a PDF exactly when its first 4 bytes
\* are '%PDF'; the record it writes is named pdf_....txt for a PDF and
\* web_....txt for anything else, no PDF is written as a web_ record, and when
\* the PDF text extraction yields nothing no record is written and the link is
\* counted as failed; a record is written exactly for the links counted as
\* successful, and while the output directory takes the file these are the
\* PDFs with text and every other content that was fetched
PdfClassifiedByMagic ==
  counted \in {"successful", "failed", "raised"} =>
    /\ Cardinality(saved) <= 1
    /\ \A f \in saved :
         IF HasPdfMagic THEN Named(f, "pdf_") /\ ~Named(f, "web_")
         ELSE Named(f, "web_") /\ ~Named(f, "pdf_")
    /\ saved # {} <=> counted = "successful"
    /\ HasPdfMagic /\ NothingExtracted => saved = {} /\ counted = "failed"
    /\ HasPdfMagic /\ ~NothingExtracted /\ link.writable => \E f \in saved : Named(f, "pdf_")
    /\ IsOtherContent /\ link.writable => \E f \in saved : Named(f, "web_")

\* a content of just the four bytes '%PDF', from which text is extracted, was
\* written as a pdf_ record
PdfClassifiedByMagicWitness ==
  /\ counted = "successful"
  /\ link.content = Chars("%PDF")
  /\ \E f \in saved : StartsWith(f.name, Chars("pdf_"))

\* the line is made of white space, brackets, dashes, asterisks and parentheses
OnlySymbols(stripped) ==
  \A i \in 1..Len(stripped) : stripped[i] \in WS \cup {"[", "]", "-", "*", "(", ")"}

\* the four rules, on the stripped form of a body line
KeptByRules(line) ==
  LET stripped == Strip(line)
  IN /\ Len(stripped) >= 3
     /\ ~OnlySymbols(stripped)
     /\ ~(Len(stripped) < 30 /\ HasNavWord(stripped))
     /\ \/ \E i \in 1..Len(stripped) : stripped[i] \in {".", "!", "?", "#", BT}
        \/ Len(stripped) > 20

\* C18: extract_substance keeps a body line exactly when its stripped form
\* has at least 3 characters, is not made only of white space, brackets,
\* dashes, asterisks and parentheses, is not both shorter than 30 characters
\* and holding a navigation keyword, and holds one of . ! ? # and the backtick
\* or is longer than 20 characters: the body written is that of the lines the
\* four rules keep, a line of 20 plain characters is dropped and one of 21
\* kept, a line of 29 characters with 'menu' is dropped and one of 30 kept
LooseKeepsByRules ==
  last = "extract_substance" =>
    LET kept == SelectSeq(InLines, KeptByRules)
    IN /\ BodyOf(file) = Join([i \in 1..Len(kept) |-> LooseClean(Strip(kept[i]))], NL)
       /\ \A l \in Range(InLines) :
            /\ l = Chars("Twenty chars of text") => ~KeptByRules(l)
            /\ l = Chars("Twenty chars of texts") => KeptByRules(l) /\ KeptAs(l)
            /\ l = Chars("The menu has twenty nine char") => ~KeptByRules(l)
            /\ l = Chars("The menu has twenty nine chars") => KeptByRules(l) /\ KeptAs(l)

\* extract_substance met the line of 20 plain characters and wrote a body
\* without it
LooseKeepsByRulesWitness ==
  /\ last = "extract_substance"
  /\ InLines[1] = Chars("Twenty chars of text")
  /\ Len(InLines) > 1
  /\ Chars("Twenty chars of text") \notin Range(OutLines(file))
  /\ OutLines(file) # <<>>

\* the number of bracket, parenthesis and brace characters of a line
SymbolChars(line) ==
  Cardinality({i \in 1..Len(line) : line[i] \in {"[", "]", "(", ")", "{", "}"}})

\* C19: final_extract leaves out every line dominated by symbol characters:
\* a line that is kept as a sentence, not as a heading or as code, does not
\* come out when it has more bracket, parenthesis and brace characters than
\* half the number of its words
SymbolLineRejected ==
  last = "final_extract" =>
    \A i \in DOMAIN InLines :
      LET stripped == Strip(InLines[i])
      IN (~IsHeadingOrCode(stripped) /\ 2 * SymbolChars(stripped) > NumWords(stripped))
           => /\ stripped \notin Range(OutLines(file))
              /\ StrictClean(stripped) \notin Range(OutLines(file))

\* C20: no line of the body either filter writes still holds a [text](url)
\* link, a **bold** wrapper or an *italic* wrapper, heading and code lines
\* included
NoMarkupLeft ==
  last \in FilterNames =>
    \A l \in Range(OutLines(file)) :
      /\ ~ReSearch(LinkRe, l)
      /\ ~ReSearch(BoldRe, l)
      /\ ~ReSearch(ItalicRe, l)

---------------------------------------------------------------------------
(* The loop of main over LINKS *)

\* fetching the link fails: requests raises, the time runs out, the status
\* is not 2xx, or the body is empty
FetchFails(l) == l.response.kind # "ok" \/ l.response.body = <<>>
NotScraped(l) == IsVideo(l.url) \/ l.url \in already_scraped
CountedAs(how) == Cardinality({i \in 1..Len(visits) : visits[i].how = how})

\* C21: a link whose fetch fails does not stop the loop of main: the links
\* taken are always the first links of LINKS in their order, each counted in
\* exactly one of successful, failed, skipped (a failed fetch in failed), and
\* the summary is printed only after all of them, with Total = len(LINKS);
\* until then the loop has a next step, and for a link whose fetch fails that
\* step is the one that counts it failed; only the record of a link that was
\* fetched, when it cannot be written, lets an exception end main
FetchFailureCounted ==
  /\ Len(visits) <= Len(links)
  /\ \A i \in 1..Len(visits) : visits[i].url = links[i].url
  /\ successful = CountedAs("successful")
  /\ failed = CountedAs("failed")
  /\ skipped = CountedAs("skipped")
  /\ successful + failed + skipped = Len(visits) - CountedAs("raised")
  /\ \A i \in 1..Len(visits) :
       /\ FetchFails(links[i]) /\ ~NotScraped(links[i]) => visits[i].how = "failed"
       /\ visits[i].how = "raised" =>
            /\ i = Len(visits)
            /\ ~FetchFails(links[i])
            /\ ~links[i].writable
  /\ total = NotPrinted /\ ~Stopped => Scraping \/ Len(visits) = Len(links)
  /\ Scraping /\ FetchFails(NextLinkOf) /\ ~NotScraped(NextLinkOf) =>
       \E r \in {scrape_link(Fetched(NextLinkOf))} : ~r.ok /\ ~r.raised /\ r.files = {}
  /\ total # NotPrinted => Len(visits) = Len(links) /\ total = Len(links)

\* the summary of a list whose first link could not be fetched and whose
\* next links were saved
FetchFailureCountedWitness ==
  /\ total = MaxLinks
  /\ FetchFails(links[1])
  /\ visits[1].how = "failed"
  /\ visits[2].how = "successful"
  /\ visits[3].how = "successful"

\* the record of the link in the output directory
RecordOf(url) ==
  {f \in outdir :
     StartsWith(f.text, Chars("Source URL: ") \o clean_url(url) \o NL)}

\* C27: every link counted as successful has its own record in the output
\* directory, with its cleaned URL in the 'Source URL:' line: no record is
\* overwritten by that of a later link
NoRecordOverwritten ==
  \A i \in 1..Len(visits) :
    visits[i].how = "successful" => RecordOf(visits[i].url) # {}

---------------------------------------------------------------------------
(* The extractor raising *)

\* the passes that hand the body to an extractor
ExtractorPasses == {"aggressive_clean", "clean_external_links"}

\* the text the regex strip of tags and links leaves of the body the last
\* pass was given, with its runs of white space as one space each
StrippedBefore ==
  ReSub(WsRunRe, RpSpace,
        FallbackClean(AggressiveMarkdown(ReSubOnce(HeaderRe, RpEmpty, prev))))

\* C22: a pass whose extractor raised goes on to its threshold check with
\* the text the regex strip gives for the record: the length it measures is
\* that of the stripped text, and the record is not passed over unmeasured
ExtractorFailureFallsBack ==
  /\ last \in ExtractorPasses => measured # NotMeasured
  /\ (last = "aggressive_clean"
        /\ Feed(AggressiveMarkdown(ReSubOnce(HeaderRe, RpEmpty, prev))).raised)
       => measured = Len(StrippedBefore)

---------------------------------------------------------------------------
(* The header of a record that has not all of it *)

\* the URL lines of the record as it was before the first run
UrlLinesOf(f) == {l \in Range(SplitLines(f)) : IsUrlLine(l)}
TimesIn(f, line) ==
  LET l == SplitLines(f) IN Cardinality({i \in 1..Len(l) : l[i] = line})
SepLinesIn(f) ==
  LET l == SplitLines(f) IN Cardinality({i \in 1..Len(l) : IsSepLine(l[i])})

\* C23: after any number of runs of one pass over a record with an incomplete
\* header, the file holds each of its header lines once and one separator
\* line, and a run after the first leaves the file no longer than it was
HeaderNotCopied ==
  (last # "none" /\ present) =>
    /\ \A h \in UrlLinesOf(orig) : TimesIn(file, h) = 1
    /\ SepLinesIn(file) = 1
    /\ budget < PartialRuns - 1 => Len(file) <= Len(prev)

---------------------------------------------------------------------------
(* Body lines that look like header lines *)

\* C24: the body is what follows the first separator line, whatever its
\* lines look like: convert_html_to_clean_text hands all of it to the
\* converter, so each of its lines that is not blank is in the file written,
\* and polish_files cleans all of it
HeaderLikeBodyKept ==
  /\ last = "convert_html_to_clean_text" =>
       \A i \in DOMAIN BodyLinesOf(prev) :
         LET l == Strip(BodyLinesOf(prev)[i])
         IN l # <<>> => l \in Range(SplitLines(file))
  /\ last = "polish_files" =>
       BodyOf(file) = PolishSpace(PolishRemnants(PolishMarkdown(BodyOf(prev))))

---------------------------------------------------------------------------
(* The markers of the extractor *)

\* the pieces of the content that are a given marker
Pieces(m) == Cardinality({i \in 1..Len(ext.content) : ext.content[i] = m})
HeadingOpened == Pieces(Chars("\n### H2\n"))
HeadingClosed == Pieces(NL)
EvenNumber(n) == n % 2 = 0

\* C25: the extractor's markers come in pairs for well-nested tags, a class
\* of the denylist on the start tag or not: no more headings are closed than
\* were opened, and once every element is closed as many; the fences and
\* the backticks, which open and close by turns, are then an even number
MarkersPaired ==
  nested =>
    /\ HeadingClosed <= HeadingOpened
    /\ opened = <<>> =>
         /\ HeadingClosed = HeadingOpened
         /\ EvenNumber(Pieces(Fence))
         /\ EvenNumber(Pieces(<<BT>>))

---------------------------------------------------------------------------
(* The lines the substance filter writes *)

\* C26: every body line the substance filter writes, in either variant, has
\* at least three characters: the markdown cleanup of a kept line leaves no
\* empty line and no line shorter than that
WrittenLinesLongEnough ==
  last \in FilterNames =>
    \A i \in DOMAIN OutLines(file) : Len(OutLines(file)[i]) >= MinLineLen

---------------------------------------------------------------------------
(* The body the audit and the fix measure *)

\* the text that follows the separator line
AfterSepLine(f) ==
  LET l == SplitLines(f)
      seps == {i \in 1..Len(l) : IsSepLine(l[i])}
  IN IF seps = {} THEN <<>>
     ELSE Join(From(l, (CHOOSE i \in seps : \A j \in seps : i <= j) + 1), NL)

\* C28: the audit and the fix measure the text that follows the separator
\* line and none of the separator: a record the audit lists as good has a
\* body of at least 150 characters, and a record the fix leaves as 'Already
\* good' a body of more than 1000
BodyMeasuredAlone ==
  \A i \in DOMAIN done :
    LET f == dir[done[i].name].text
    IN /\ done[i].result = "good" => Len(Strip(AfterSepLine(f))) >= AuditMin
       /\ done[i].result = "Already good" => Len(AfterSepLine(f)) > FixGoodLen

---------------------------------------------------------------------------
(* The URL of a link, cleaned *)

\* the URL in the 'Source URL:' line of a record
SourceUrlOf(f) == From(SplitLines(f.text)[1], Len(Chars("Source URL: ")) + 1)

\* C29: the URL a link is recorded under is the cleaned one: it ends in
\* neither ';' nor '.', and for a link of LINKS that ends in '...' and holds
\* a known fragment it is the link with the completion in place of '...'
UrlCompleted ==
  \A f \in saved :
    LET u == SourceUrlOf(f)
    IN /\ u # <<>> => u[Len(u)] \notin {";", "."}
       /\ \A k \in DOMAIN url_completions :
            (EndsWith(link.url, Chars("...")) /\ Contains(link.url, url_completions[k].fragment))
              => u = Replace(link.url, Chars("..."), url_completions[k].completion)

\* C30: every sweep ends normally with its final summary report, whatever the
\* directory holds: no sweep is ended by an exception, in particular not
\* final_extract.main on a directory without a matching file, nor
\* batch_convert_pymupdf on a folder without a PDF or with PDFs that all fail
EverySweepReports == phase # "aborted"

=============================================================================
